---------------------------- MODULE Spec2Model ----------------------------
(***************************************************************************)
(* Trade-Signals (src/main.py and its variants): the multi-timeframe       *)
(* agreement heuristic and the indicators it is built from.                *)
(*                                                                         *)
(* Prices are exact rationals [n, d] (d > 0, lowest terms); the floating   *)
(* point rounding of the interpreter is not modelled, the explicit         *)
(* round(x, 6) calls of the code are.  Python's None is the record None    *)
(* for numbers, the string "null" for strings, and a frame with            *)
(* present = FALSE for a DataFrame.                                        *)
(*                                                                         *)
(* The look-back windows of the code (fast = 9, slow = 21, period = 14)    *)
(* are parameters of its functions; the model instantiates them with the   *)
(* small values FastWin, SlowWin and AtrPeriod, which keep the order       *)
(* AtrPeriod <= SlowWin + 2 and FastWin < SlowWin that the code's          *)
(* defaults have.                                                          *)
(***************************************************************************)
EXTENDS Integers, Sequences, FiniteSets, TLC

VARIABLES
    pc,         \* where the request for one instrument stands
    symbol,     \* analyze_instrument's oanda_symbol
    frames,     \* what fetch_oanda_candles returned, by granularity
    out,        \* what analyze_instrument returned
    fn_df,      \* the candle frame handed to a directly called function
    fn_call,    \* which function was called, with its scalar arguments
    fn_ret,     \* what the call returned
    CACHE,      \* the module's CACHE dict: key -> {"val", "ts"}
    clock,      \* time.time(), in seconds
    last_set,   \* history: the latest cache_set of each key
    cache_op    \* the latest cache or fetch call and what it returned

vars == <<pc, symbol, frames, out, fn_df, fn_call, fn_ret,
          CACHE, clock, last_set, cache_op>>
cacheVars == <<CACHE, clock, last_set, cache_op>>

---------------------------------------------------------------------------
(* Bounds of the model.                                                    *)

FastWin == 2        \* ema_dir's fast window (9 in the code)
SlowWin == 3        \* ema_dir's slow window (21 in the code)
AtrPeriod == 3      \* atr's period (14 in the code)
SwingRadius == 1    \* swing_points' left and right (3 in the code)
SwingMinBars == 2   \* swings_24h's shortest frame (6 in the code)
SwingWindow == 5    \* swings_24h's window (96 in the code)
RangeMinBars == 3   \* recent_30m_range's shortest frame (10 in the code)
RangeTail == 5      \* recent_30m_range's window (30 in the code)
MaWindow == 3       \* the 1h moving average's window (50 in the code)
MaMinBars == 4      \* the shortest 1h frame that gives a bias (60 in the code)
MaxClose == 6       \* closes of the flat-bodied frames: 1..MaxClose price steps
MaxPx == 2          \* prices of the wicked frames: 1..MaxPx price steps
PriceStep == 6      \* one price step, in price units
BasePrice == 100    \* where the generated trends start, in price units
HighPrice == 1000   \* where the trends of a high-priced instrument start
MaxCandles == 2     \* candles in one provider response
MaxClock == 39      \* how far the clock runs, in seconds
InstantMinBars == 4 \* compute_signal_instant's shortest frame (25 in the code)
InstantSpan == 3    \* the span of its moving average (20 in the code)
InstantPx == 3      \* prices of its last two candles: 1..InstantPx price steps
FvgPx == 2          \* prices of detect_fvgs's frames: 0..FvgPx price steps
TradePx == 2        \* prices of trade_signal's frames: 0..TradePx points
TradeBars == 3      \* the longest of its frames
MaxPoints == 3      \* the largest min_points of a request

---------------------------------------------------------------------------
(* Exact arithmetic on rationals.                                          *)

RECURSIVE GCD(_, _)
GCD(a, b) == IF b = 0 THEN a ELSE GCD(b, a % b)

Abs(x) == IF x < 0 THEN -x ELSE x

Norm(n, d) ==
    LET g == GCD(Abs(n), d)
    IN  [n |-> n \div g, d |-> d \div g]

Q(i) == [n |-> i, d |-> 1]

QAdd(a, b) == Norm(a.n * b.d + b.n * a.d, a.d * b.d)
QSub(a, b) == Norm(a.n * b.d - b.n * a.d, a.d * b.d)
QMulInt(a, k) == Norm(a.n * k, a.d)
QDivInt(a, k) == Norm(a.n, a.d * k)
QMul(a, b) == Norm(a.n * b.n, a.d * b.d)
QLt(a, b) == a.n * b.d < b.n * a.d
QLe(a, b) == a.n * b.d <= b.n * a.d
QAbs(a) == [n |-> Abs(a.n), d |-> a.d]
QMax(a, b) == IF QLt(a, b) THEN b ELSE a
\* a / b for b # 0
QDiv(a, b) ==
    IF b.n < 0 THEN Norm(-(a.n * b.d), a.d * (-b.n)) ELSE Norm(a.n * b.d, a.d * b.n)

\* Python's None where the code expects a float, and a float.
None == [some |-> FALSE, n |-> 0, d |-> 1]
Some(q) == [some |-> TRUE, n |-> q.n, d |-> q.d]
Val(o) == [n |-> o.n, d |-> o.d]

\* round(x, 6): to the nearest multiple of 10^-6, ties to even.
Round6(q) ==
    LET whole == q.n \div q.d
        frac == q.n % q.d
        scaled == frac * 1000000
        lo == scaled \div q.d
        rem == scaled % q.d
        up == \/ 2 * rem > q.d
              \/ (2 * rem = q.d /\ lo % 2 = 1)
        m == IF up THEN lo + 1 ELSE lo
    IN  Norm(whole * 1000000 + m, 1000000)

---------------------------------------------------------------------------
(* Candles and frames.  A frame is what fetch_oanda_candles returns: None  *)
(* or a DataFrame of completed candles, oldest first.                      *)

Candle(o, h, l, c) == [open |-> o, high |-> h, low |-> l, close |-> c]

NoFrame == [present |-> FALSE, bars |-> <<>>]
Frame(bars) == [present |-> TRUE, bars |-> bars]

Closes(bars) == [i \in 1..Len(bars) |-> bars[i].close]

\* The last k elements of a sequence (s[-k:], df.tail(k)).
LastK(s, k) ==
    IF Len(s) <= k THEN s ELSE SubSeq(s, Len(s) - k + 1, Len(s))

RECURSIVE SumSeq(_)
SumSeq(s) == IF s = <<>> THEN Q(0) ELSE QAdd(s[1], SumSeq(Tail(s)))

Mean(s) == QDivInt(SumSeq(s), Len(s))

MaxOf(S) == CHOOSE x \in S : \A y \in S : y <= x
MinOf(S) == CHOOSE x \in S : \A y \in S : x <= y

---------------------------------------------------------------------------
(* atr (src/main.py:115-124).                                              *)

\* ta's true range of bar i: the previous close of the first bar is NaN and
\* the row maximum skips it.
TrueRange(bars, i) ==
    IF i = 1 THEN bars[1].high - bars[1].low
    ELSE MaxOf({bars[i].high - bars[i].low,
                Abs(bars[i].high - bars[i - 1].close),
                Abs(bars[i].low - bars[i - 1].close)})

\* ta.volatility.AverageTrueRange(...).average_true_range(): the mean of the
\* first `period` true ranges at index period-1, Wilder's smoothing after it.
RECURSIVE WilderAtr(_, _, _)
WilderAtr(bars, period, i) ==
    IF i = period
    THEN Mean([k \in 1..period |-> Q(TrueRange(bars, k))])
    ELSE QDivInt(QAdd(QMulInt(WilderAtr(bars, period, i - 1), period - 1),
                      Q(TrueRange(bars, i))), period)

\* The library call raises (an index past the end of the array it fills)
\* when the frame has fewer than `period` bars.
LibraryAtrFails(bars, period) == Len(bars) < period

\* AtrFallback with the differences signed (np.abs left out).
AtrFallback_signed(bars, period) ==
    LET closes == Closes(bars)
        diffs == [i \in 1..(Len(closes) - 1) |-> Q(closes[i + 1] - closes[i])]
    IN  IF Len(closes) < 2 THEN None
        ELSE IF Len(diffs) > 0 THEN Some(Mean(LastK(diffs, period))) ELSE None

\* AtrFallback asking for one bar more before it answers.
AtrFallback_min3(bars, period) ==
    LET closes == Closes(bars)
        diffs == [i \in 1..(Len(closes) - 1) |-> Q(Abs(closes[i + 1] - closes[i]))]
    IN  IF Len(closes) < 3 THEN None
        ELSE IF Len(diffs) > 0 THEN Some(Mean(LastK(diffs, period))) ELSE None

\* AtrFallback averaging the true range of the bars after the first.
AtrFallback_true_range(bars, period) ==
    LET trs == [i \in 1..(Len(bars) - 1) |-> Q(TrueRange(bars, i + 1))]
    IN  IF Len(bars) < 2 THEN None
        ELSE IF Len(trs) > 0 THEN Some(Mean(LastK(trs, period))) ELSE None

\* The except branch: the mean of the last `period` absolute close-to-close
\* differences.
AtrFallback(bars, period) ==
    LET closes == Closes(bars)
        diffs == [i \in 1..(Len(closes) - 1) |-> Q(Abs(closes[i + 1] - closes[i]))]
    IN  IF Len(closes) < 2 THEN None
        ELSE IF Len(diffs) > 0 THEN Some(Mean(LastK(diffs, period))) ELSE None

\* atr(None) raises out of the except branch (df["close"] on None).
AtrRaises(df) == ~df.present

atr(df, period) ==
    IF LibraryAtrFails(df.bars, period)
    THEN AtrFallback(df.bars, period)
    ELSE Some(WilderAtr(df.bars, period, Len(df.bars)))

---------------------------------------------------------------------------
(* ema_dir (src/main.py:126-133).                                          *)

\* ta.trend.ema_indicator: series.ewm(span=window, min_periods=window,
\* adjust=False).mean(), seeded with the first close.
RECURSIVE Ewm(_, _, _)
Ewm(closes, window, t) ==
    IF t = 1 THEN Q(closes[1])
    ELSE QDivInt(QAdd(QMulInt(Ewm(closes, window, t - 1), window - 1),
                      Q(2 * closes[t])), window + 1)

\* .iloc[-1] of the indicator: NaN (None here) before min_periods bars.
ema_indicator_last(closes, window) ==
    IF Len(closes) < window THEN None
    ELSE Some(Ewm(closes, window, Len(closes)))

\* ema_dir asking for `slow` bars only.
ema_dir_short_guard(df, fast, slow) ==
    IF ~df.present \/ Len(df.bars) < slow THEN "null"
    ELSE LET ef == ema_indicator_last(Closes(df.bars), fast)
             es == ema_indicator_last(Closes(df.bars), slow)
         IN  IF ef.some /\ es.some /\ QLt(Val(es), Val(ef)) THEN "BUY" ELSE "SELL"

\* ema_dir with the two averages compared the wrong way round.
ema_dir_inverted(df, fast, slow) ==
    IF ~df.present \/ Len(df.bars) < slow + 2 THEN "null"
    ELSE LET ef == ema_indicator_last(Closes(df.bars), fast)
             es == ema_indicator_last(Closes(df.bars), slow)
         IN  IF ef.some /\ es.some /\ QLt(Val(ef), Val(es)) THEN "BUY" ELSE "SELL"

ema_dir(df, fast, slow) ==
    IF ~df.present \/ Len(df.bars) < slow + 2 THEN "null"
    ELSE LET ef == ema_indicator_last(Closes(df.bars), fast)
             es == ema_indicator_last(Closes(df.bars), slow)
         IN  \* a comparison with NaN is False
             IF ef.some /\ es.some /\ QLt(Val(es), Val(ef)) THEN "BUY" ELSE "SELL"

---------------------------------------------------------------------------
(* The other utilities (src/main.py:135-150).                              *)

one_min_confirm(df1m) ==
    IF ~df1m.present \/ Len(df1m.bars) < 2 THEN "null"
    ELSE LET last == df1m.bars[Len(df1m.bars)].close
             prev == df1m.bars[Len(df1m.bars) - 1].close
         IN  IF last > prev THEN "Up" ELSE IF last < prev THEN "Down" ELSE "Flat"

\* (highest high, lowest low) of the last `window` bars, or (None, None).
swings_24h(df_15m) ==
    IF ~df_15m.present \/ Len(df_15m.bars) < SwingMinBars
    THEN [high |-> None, low |-> None]
    ELSE LET recent == LastK(df_15m.bars, SwingWindow)
         IN  [high |-> Some(Q(MaxOf({recent[i].high : i \in 1..Len(recent)}))),
              low |-> Some(Q(MinOf({recent[i].low : i \in 1..Len(recent)})))]

recent_30m_range(df_1m) ==
    IF ~df_1m.present \/ Len(df_1m.bars) < RangeMinBars THEN Q(0)
    ELSE LET recent == LastK(df_1m.bars, RangeTail)
         IN  Q(MaxOf({recent[i].high : i \in 1..Len(recent)})
               - MinOf({recent[i].low : i \in 1..Len(recent)}))

---------------------------------------------------------------------------
(* compute_tp_sl (src/main.py:154-202, the same text in                    *)
(* src/main_bias_reversal_final_fix.py:287-335).                           *)

TpSl(tp, sl, flag) == [tp |-> tp, sl |-> sl, flag |-> flag, raised |-> FALSE]
TpSlRaised == [tp |-> None, sl |-> None, flag |-> "raised", raised |-> TRUE]

\* max(abs(entry)*0.002, 1.0)
SwingBuffer(entry) == QMax(QMul(QAbs(entry), Norm(2, 1000)), Q(1))

\* SwingTp with the swing level itself as the candidate (no buffer).
SwingTp_no_buffer(entry, direction, sw, base_distance) ==
    IF direction = "BUY"
    THEN IF sw.high.some
         THEN LET cand == Val(sw.high)
                  dist == QSub(cand, entry)
              IN  IF QLe(base_distance, dist) THEN Some(cand) ELSE None
         ELSE None
    ELSE IF direction = "SELL"
    THEN IF sw.low.some
         THEN LET cand == Val(sw.low)
                  dist == QSub(entry, cand)
              IN  IF QLe(base_distance, dist) THEN Some(cand) ELSE None
         ELSE None
    ELSE None

\* The swing-based take-profit, or None when there is no swing on the side
\* of the trade at least base_distance away.
SwingTp(entry, direction, sw, base_distance) ==
    IF direction = "BUY"
    THEN IF sw.high.some
         THEN LET cand == QSub(Val(sw.high), SwingBuffer(entry))
                  dist == QSub(cand, entry)
              IN  IF QLe(base_distance, dist) THEN Some(cand) ELSE None
         ELSE None
    ELSE IF direction = "SELL"
    THEN IF sw.low.some
         THEN LET cand == QAdd(Val(sw.low), SwingBuffer(entry))
                  dist == QSub(entry, cand)
              IN  IF QLe(base_distance, dist) THEN Some(cand) ELSE None
         ELSE None
    ELSE None

\* compute_tp_sl taking any swing beyond the entry and returning without
\* the closing distance check.
compute_tp_sl_unchecked(entry, direction, df_15m, instrument, min_tp_base) ==
    IF ~entry.some THEN TpSl(None, None, "no_entry")
    ELSE IF AtrRaises(df_15m) THEN TpSlRaised
    ELSE
    LET e == Val(entry)
        atr15 == atr(df_15m, AtrPeriod)
        atr_val == IF atr15.some /\ QLt(Q(0), Val(atr15)) THEN Val(atr15) ELSE Q(0)
        base_distance == QMax(min_tp_base, QAdd(min_tp_base, atr_val))
        swing_tp == SwingTp(e, direction, swings_24h(df_15m), Q(0))
        tp == IF swing_tp.some THEN Val(swing_tp)
              ELSE IF direction = "BUY" THEN QAdd(e, base_distance)
              ELSE QSub(e, base_distance)
        sl_dist == IF QLt(Q(0), atr_val) THEN atr_val ELSE QDivInt(base_distance, 2)
        sl == IF direction = "BUY" THEN QSub(e, sl_dist) ELSE QAdd(e, sl_dist)
    IN  TpSl(Some(Round6(tp)), Some(Round6(sl)), "ok")

\* compute_tp_sl with the stop-loss put on the side of the take-profit.
compute_tp_sl_stop_on_tp_side(entry, direction, df_15m, instrument, min_tp_base) ==
    IF ~entry.some THEN TpSl(None, None, "no_entry")
    ELSE IF AtrRaises(df_15m) THEN TpSlRaised
    ELSE
    LET e == Val(entry)
        atr15 == atr(df_15m, AtrPeriod)
        atr_val == IF atr15.some /\ QLt(Q(0), Val(atr15)) THEN Val(atr15) ELSE Q(0)
        base_distance == QMax(min_tp_base, QAdd(min_tp_base, atr_val))
        swing_tp == SwingTp(e, direction, swings_24h(df_15m), base_distance)
        tp == IF swing_tp.some THEN Val(swing_tp)
              ELSE IF direction = "BUY" THEN QAdd(e, base_distance)
              ELSE QSub(e, base_distance)
        sl_dist == IF QLt(Q(0), atr_val) THEN atr_val ELSE QDivInt(base_distance, 2)
        sl == IF direction = "BUY" THEN QAdd(e, sl_dist) ELSE QSub(e, sl_dist)
        final_dist == IF direction = "BUY" THEN QSub(tp, e) ELSE QSub(e, tp)
    IN  IF QLt(final_dist, min_tp_base) THEN TpSl(None, None, "tp_too_small")
        ELSE TpSl(Some(Round6(tp)), Some(Round6(sl)), "ok")

\* compute_tp_sl with the stop-loss always half the base distance away.
compute_tp_sl_half_base_stop(entry, direction, df_15m, instrument, min_tp_base) ==
    IF ~entry.some THEN TpSl(None, None, "no_entry")
    ELSE IF AtrRaises(df_15m) THEN TpSlRaised
    ELSE
    LET e == Val(entry)
        atr15 == atr(df_15m, AtrPeriod)
        atr_val == IF atr15.some /\ QLt(Q(0), Val(atr15)) THEN Val(atr15) ELSE Q(0)
        base_distance == QMax(min_tp_base, QAdd(min_tp_base, atr_val))
        swing_tp == SwingTp(e, direction, swings_24h(df_15m), base_distance)
        tp == IF swing_tp.some THEN Val(swing_tp)
              ELSE IF direction = "BUY" THEN QAdd(e, base_distance)
              ELSE QSub(e, base_distance)
        sl_dist == QDivInt(base_distance, 2)
        sl == IF direction = "BUY" THEN QSub(e, sl_dist) ELSE QAdd(e, sl_dist)
        final_dist == IF direction = "BUY" THEN QSub(tp, e) ELSE QSub(e, tp)
    IN  IF QLt(final_dist, min_tp_base) THEN TpSl(None, None, "tp_too_small")
        ELSE TpSl(Some(Round6(tp)), Some(Round6(sl)), "ok")

\* compute_tp_sl refusing a take-profit that lies exactly min_tp_base away.
compute_tp_sl_strict_check(entry, direction, df_15m, instrument, min_tp_base) ==
    IF ~entry.some THEN TpSl(None, None, "no_entry")
    ELSE IF AtrRaises(df_15m) THEN TpSlRaised
    ELSE
    LET e == Val(entry)
        atr15 == atr(df_15m, AtrPeriod)
        atr_val == IF atr15.some /\ QLt(Q(0), Val(atr15)) THEN Val(atr15) ELSE Q(0)
        base_distance == QMax(min_tp_base, QAdd(min_tp_base, atr_val))
        swing_tp == SwingTp(e, direction, swings_24h(df_15m), base_distance)
        tp == IF swing_tp.some THEN Val(swing_tp)
              ELSE IF direction = "BUY" THEN QAdd(e, base_distance)
              ELSE QSub(e, base_distance)
        sl_dist == IF QLt(Q(0), atr_val) THEN atr_val ELSE QDivInt(base_distance, 2)
        sl == IF direction = "BUY" THEN QSub(e, sl_dist) ELSE QAdd(e, sl_dist)
        final_dist == IF direction = "BUY" THEN QSub(tp, e) ELSE QSub(e, tp)
    IN  IF QLe(final_dist, min_tp_base) THEN TpSl(None, None, "tp_too_small")
        ELSE TpSl(Some(Round6(tp)), Some(Round6(sl)), "ok")

compute_tp_sl(entry, direction, df_15m, instrument, min_tp_base) ==
    IF ~entry.some THEN TpSl(None, None, "no_entry")
    ELSE IF AtrRaises(df_15m) THEN TpSlRaised
    ELSE
    LET e == Val(entry)
        atr15 == atr(df_15m, AtrPeriod)
        atr_val == IF atr15.some /\ QLt(Q(0), Val(atr15)) THEN Val(atr15) ELSE Q(0)
        base_distance == QMax(min_tp_base, QAdd(min_tp_base, atr_val))
        swing_tp == SwingTp(e, direction, swings_24h(df_15m), base_distance)
        tp == IF swing_tp.some THEN Val(swing_tp)
              ELSE IF direction = "BUY" THEN QAdd(e, base_distance)
              ELSE QSub(e, base_distance)
        sl_dist == IF QLt(Q(0), atr_val) THEN atr_val ELSE QDivInt(base_distance, 2)
        sl == IF direction = "BUY" THEN QSub(e, sl_dist) ELSE QAdd(e, sl_dist)
        final_dist == IF direction = "BUY" THEN QSub(tp, e) ELSE QSub(e, tp)
    IN  IF QLt(final_dist, min_tp_base) THEN TpSl(None, None, "tp_too_small")
        ELSE TpSl(Some(Round6(tp)), Some(Round6(sl)), "ok")

---------------------------------------------------------------------------
(* analyze_instrument (src/main.py:207-287).                               *)

TF == {"H1", "M15", "M5", "M1"}

\* MIN_TP (src/main.py:41-54), in price units.
MIN_TP ==
    [XAU_USD |-> Q(10), NAS100_USD |-> Q(10), US30_USD |-> Q(10),
     GER40_EUR |-> Q(5), UK100_GBP |-> Q(5), EU50_EUR |-> Q(5),
     GBP_USD |-> Norm(20, 10000), EUR_USD |-> Norm(20, 10000),
     USD_JPY |-> Norm(15, 100), USD_CHF |-> Norm(20, 10000),
     AUD_USD |-> Norm(20, 10000), NZD_USD |-> Norm(20, 10000)]

\* MappedMin answering with the floor of the rule for every symbol.
MappedMin_rule_floor(oanda_symbol, min_tp_required) == min_tp_required

\* MIN_TP.get(oanda_symbol, min_tp_required)
MappedMin(oanda_symbol, min_tp_required) ==
    IF oanda_symbol \in DOMAIN MIN_TP THEN MIN_TP[oanda_symbol] ELSE min_tp_required

\* The two rules of the loop, in its order: (rule_name, min_tp).
Rules == <<[name |-> "min_10", min_tp |-> Q(10)], [name |-> "min_5", min_tp |-> Q(5)]>>

\* Lines 216-225: (primary_bias, ma50) from the 1h frame.
PrimaryBias(df_1h) ==
    IF df_1h.present /\ Len(df_1h.bars) >= MaMinBars
    THEN LET closes == Closes(df_1h.bars)
             ma50 == Mean([i \in 1..MaWindow |-> Q(LastK(closes, MaWindow)[i])])
             cur == Q(closes[Len(closes)])
         IN  IF ma50.n = 0
             THEN \* float division by zero: inf, -inf or nan, no exception
                  [primary_bias |-> IF cur.n > 0 THEN "UP"
                                    ELSE IF cur.n < 0 THEN "DOWN" ELSE "SIDEWAYS",
                   ma50 |-> Some(Q(0))]
             ELSE LET diff_pct == QMulInt(QDiv(QSub(cur, ma50), ma50), 100)
                  IN  [primary_bias |-> IF QLt(Norm(1, 2), diff_pct) THEN "UP"
                                        ELSE IF QLt(diff_pct, Norm(-1, 2)) THEN "DOWN"
                                        ELSE "SIDEWAYS",
                       ma50 |-> Some(Round6(ma50))]
    ELSE [primary_bias |-> "UNKNOWN", ma50 |-> None]

NoTrade(reason, dir_15, dir_5, dir_1, confirm_1m) ==
    [signal |-> "NO TRADE", entry |-> None, tp |-> None, sl |-> None,
     reason |-> reason, dir_15 |-> dir_15, dir_5 |-> dir_5, dir_1 |-> dir_1,
     confirm_1m |-> confirm_1m, raised |-> FALSE]

\* agreement with the sides only required to be known, not equal.
Agreement_known_only(dir_15, dir_5) ==
    dir_15 \in {"BUY", "SELL"} /\ dir_5 \in {"BUY", "SELL"}

\* Line 237: 15m and 5m must match and be BUY/SELL.
Agreement(dir_15, dir_5) ==
    /\ dir_15 \in {"BUY", "SELL"}
    /\ dir_5 \in {"BUY", "SELL"}
    /\ dir_15 = dir_5

\* QuickChecks with the 1-minute mismatch left to pass (an annotation, no veto).
QuickChecks_soft_confirm(agreement, agreement_side, dir_1, range_30m, mapped_min) ==
    IF ~agreement THEN "15m and 5m do not agree"
    ELSE IF dir_1 \notin {"BUY", "SELL"} THEN "1m EMA direction unknown"
    ELSE IF QLt(range_30m, mapped_min) THEN "Low 30m volatility"
    ELSE "pass"

\* QuickChecks with the low-volatility branch leaving the placeholder reason.
QuickChecks_reason_unset(agreement, agreement_side, dir_1, range_30m, mapped_min) ==
    IF ~agreement THEN "15m and 5m do not agree"
    ELSE IF dir_1 \notin {"BUY", "SELL"} THEN "1m EMA direction unknown"
    ELSE IF dir_1 # agreement_side THEN "1m EMA doesn't match 5m/15m agreement"
    ELSE IF QLt(range_30m, mapped_min) THEN "unknown"
    ELSE "pass"

\* QuickChecks with the volatility check moved in front of the others.
QuickChecks_volatility_first(agreement, agreement_side, dir_1, range_30m, mapped_min) ==
    IF QLt(range_30m, mapped_min) THEN "Low 30m volatility"
    ELSE IF ~agreement THEN "15m and 5m do not agree"
    ELSE IF dir_1 \notin {"BUY", "SELL"} THEN "1m EMA direction unknown"
    ELSE IF dir_1 # agreement_side THEN "1m EMA doesn't match 5m/15m agreement"
    ELSE "pass"

\* Lines 249-270: the reason of the first check that fails, or "pass".  The
\* low-volatility reason stands for the formatted text of line 268.
QuickChecks(agreement, agreement_side, dir_1, range_30m, mapped_min) ==
    IF ~agreement THEN "15m and 5m do not agree"
    ELSE IF dir_1 \notin {"BUY", "SELL"} THEN "1m EMA direction unknown"
    ELSE IF dir_1 # agreement_side THEN "1m EMA doesn't match 5m/15m agreement"
    ELSE IF QLt(range_30m, mapped_min) THEN "Low 30m volatility"
    ELSE "pass"

\* One pass of the loop of lines 245-279: the info of one rule.  raised
\* says that an exception left the pass.
RuleInfo(oanda_symbol, min_tp, df_15, df_1, dir_15, dir_5, dir_1, confirm_1m) ==
    LET entry == IF df_1.present /\ Len(df_1.bars) > 0
                 THEN Some(Q(df_1.bars[Len(df_1.bars)].close)) ELSE None
        agreement == Agreement(dir_15, dir_5)
        agreement_side == IF agreement THEN dir_15 ELSE "null"
        range_30m == recent_30m_range(df_1)
        mapped_min == MappedMin(oanda_symbol, min_tp)
        failed == QuickChecks(agreement, agreement_side, dir_1, range_30m, mapped_min)
        r == compute_tp_sl(entry, agreement_side, df_15, oanda_symbol, mapped_min)
        info(reason) == NoTrade(reason, dir_15, dir_5, dir_1, confirm_1m)
    IN  IF failed # "pass" THEN info(failed)
        ELSE IF r.raised THEN [info("unknown") EXCEPT !.raised = TRUE]
        ELSE IF r.flag # "ok" THEN info(r.flag)
        ELSE [info("ok") EXCEPT !.signal = agreement_side,
                                !.entry = Some(Round6(Val(entry))),
                                !.tp = r.tp, !.sl = r.sl]

analyze_instrument(oanda_symbol, df_1h, df_15, df_5, df_1) ==
    LET bias == PrimaryBias(df_1h)
        dir_15 == ema_dir(df_15, FastWin, SlowWin)
        dir_5 == ema_dir(df_5, FastWin, SlowWin)
        dir_1 == ema_dir(df_1, FastWin, SlowWin)
        confirm_1m == one_min_confirm(df_1)
        results == [i \in 1..Len(Rules) |->
                       RuleInfo(oanda_symbol, Rules[i].min_tp, df_15, df_1,
                                dir_15, dir_5, dir_1, confirm_1m)]
    IN  [returned |-> TRUE,
         raised |-> \E i \in 1..Len(Rules) : results[i].raised,
         primary_bias |-> bias.primary_bias,
         ma50 |-> bias.ma50,
         min_10 |-> results[1],
         min_5 |-> results[2],
         chart |-> IF df_1.present THEN Closes(df_1.bars) ELSE <<>>]

---------------------------------------------------------------------------
(* swing_points (src/main_update4_diag.py:88-99).  Bars are counted from 1  *)
(* here and from 0 in the code; the time of a bar is its position.          *)

\* The [-10:] of lines 97-98.
SwingKeep == 10

\* range(left, len(df) - right), counted from 1.
SwingRange(n, left, right) == (left + 1)..(n - right)

\* high[i] == max(high[i-left:i+right+1]) and the same for the lows.
IsSwingHigh(bars, i, left, right) ==
    bars[i].high = MaxOf({bars[k].high : k \in (i - left)..(i + right)})
IsSwingLow(bars, i, left, right) ==
    bars[i].low = MinOf({bars[k].low : k \in (i - left)..(i + right)})

\* The positions of 1..n that pass Test, in ascending order.
RECURSIVE Ascending(_, _)
Ascending(S, n) ==
    IF n = 0 THEN <<>>
    ELSE IF n \in S THEN Append(Ascending(S, n - 1), n) ELSE Ascending(S, n - 1)

\* s[:k]
FirstK(s, k) == IF Len(s) <= k THEN s ELSE SubSeq(s, 1, k)

\* swing_points with a bar counted only when it alone holds the extreme.
swing_points_strict(df, left, right) ==
    LET bars == df.bars
        n == Len(bars)
        hi == {i \in SwingRange(n, left, right) :
                  \A k \in (i - left)..(i + right) : k # i => bars[k].high < bars[i].high}
        lo == {i \in SwingRange(n, left, right) :
                  \A k \in (i - left)..(i + right) : k # i => bars[k].low > bars[i].low}
        highs == LastK(Ascending(hi, n), SwingKeep)
        lows == LastK(Ascending(lo, n), SwingKeep)
    IN  [highs |-> [j \in 1..Len(highs) |-> [time |-> highs[j], price |-> bars[highs[j]].high]],
         lows |-> [j \in 1..Len(lows) |-> [time |-> lows[j], price |-> bars[lows[j]].low]]]

\* swing_points keeping the first SwingKeep candidates ([:10]).
swing_points_keep_first(df, left, right) ==
    LET bars == df.bars
        n == Len(bars)
        hi == {i \in SwingRange(n, left, right) : IsSwingHigh(bars, i, left, right)}
        lo == {i \in SwingRange(n, left, right) : IsSwingLow(bars, i, left, right)}
        highs == FirstK(Ascending(hi, n), SwingKeep)
        lows == FirstK(Ascending(lo, n), SwingKeep)
    IN  [highs |-> [j \in 1..Len(highs) |-> [time |-> highs[j], price |-> bars[highs[j]].high]],
         lows |-> [j \in 1..Len(lows) |-> [time |-> lows[j], price |-> bars[lows[j]].low]]]

swing_points(df, left, right) ==
    LET bars == df.bars
        n == Len(bars)
        hi == {i \in SwingRange(n, left, right) : IsSwingHigh(bars, i, left, right)}
        lo == {i \in SwingRange(n, left, right) : IsSwingLow(bars, i, left, right)}
        \* appended in the order of the loop, then cut to the last SwingKeep
        highs == LastK(Ascending(hi, n), SwingKeep)
        lows == LastK(Ascending(lo, n), SwingKeep)
    IN  [highs |-> [j \in 1..Len(highs) |-> [time |-> highs[j], price |-> bars[highs[j]].high]],
         lows |-> [j \in 1..Len(lows) |-> [time |-> lows[j], price |-> bars[lows[j]].low]]]

---------------------------------------------------------------------------
(* detect_fvgs (src/main_update4_diag.py:76-86).  The time of a bar is its  *)
(* position in the frame, as for swing_points.                              *)

\* max_keep's default.
FvgKeep == 12

Fvg(type, start, end, low, high) ==
    [type |-> type, start |-> start, end |-> end, low |-> low, high |-> high]

\* Lines 82 and 84: the tests of the loop at position i (i - 2 from 1 on).
BullishAt(bars, i) == bars[i].low > bars[i - 2].high
BearishAt(bars, i) == bars[i].high < bars[i - 2].low

\* Lines 82-85: what the loop appends at position i.
FvgAt(bars, i) ==
    IF BullishAt(bars, i)
    THEN Fvg("bullish", i - 2, i, bars[i - 2].high, bars[i].low)
    ELSE Fvg("bearish", i - 2, i, bars[i].high, bars[i - 2].low)

\* detect_fvgs keeping the first max_keep gaps (fvgs[:max_keep]).
detect_fvgs_keep_first(df, max_keep) ==
    LET bars == df.bars
        n == Len(bars)
        at == {i \in 3..n : BullishAt(bars, i) \/ BearishAt(bars, i)}
        kept == FirstK(Ascending(at, n), max_keep)
    IN  [j \in 1..Len(kept) |-> FvgAt(bars, kept[j])]

detect_fvgs(df, max_keep) ==
    LET bars == df.bars
        n == Len(bars)
        \* range(2, len(df)), counted from 1
        at == {i \in 3..n : BullishAt(bars, i) \/ BearishAt(bars, i)}
        \* appended in the order of the loop, then fvgs[-max_keep:]
        kept == LastK(Ascending(at, n), max_keep)
    IN  [j \in 1..Len(kept) |-> FvgAt(bars, kept[j])]

---------------------------------------------------------------------------
(* compute_signal_instant (src/main_update4_diag.py:101-120).  The 25 bars  *)
(* it asks for and the span 20 of its average are InstantMinBars and        *)
(* InstantSpan here, in the same order: InstantSpan < InstantMinBars.       *)

\* round(x, 2): to the nearest multiple of 10^-2, ties to even.
Round2(q) ==
    LET whole == q.n \div q.d
        frac == q.n % q.d
        scaled == frac * 100
        lo == scaled \div q.d
        rem == scaled % q.d
        up == \/ 2 * rem > q.d
              \/ (2 * rem = q.d /\ lo % 2 = 1)
        m == IF up THEN lo + 1 ELSE lo
    IN  Norm(whole * 100 + m, 100)

\* ema(series, n).iloc[-1]: series.ewm(span=n, adjust=False).mean(), defined
\* from the first bar on.
ema(closes, n) == Ewm(closes, n, Len(closes))

InstantOut(direction, price, take_profit, stop_loss, risk_reward) ==
    [direction |-> direction, price |-> price, take_profit |-> take_profit,
     stop_loss |-> stop_loss, risk_reward |-> risk_reward, raised |-> FALSE]
\* len(None), or a division by zero, raises out of the function.
InstantRaised == [InstantOut("", None, None, None, None) EXCEPT !.raised = TRUE]

\* rr of line 113.
RiskReward == 2

BullEngulf(c1, c2, ema20) ==
    /\ c1.close > c1.open
    /\ c1.open <= c2.close
    /\ c1.close >= c2.open
    /\ QLt(ema20, Q(c1.close))
BearEngulf(c1, c2, ema20) ==
    /\ c1.close < c1.open
    /\ c1.open >= c2.close
    /\ c1.close <= c2.open
    /\ QLt(Q(c1.close), ema20)

\* BullEngulf without the test that the last candle closed above its open.
BullEngulf_no_body(c1, c2, ema20) ==
    /\ c1.open <= c2.close
    /\ c1.close >= c2.open
    /\ QLt(ema20, Q(c1.close))

\* Lines 114-116 and 117-119.
InstantBuy(price, c1, c2) ==
    LET sl == Q(IF c1.low <= c2.low THEN c1.low ELSE c2.low)
        tp == QAdd(price, QMulInt(QSub(price, sl), RiskReward))
    IN  IF QSub(price, sl).n = 0 THEN InstantRaised
        ELSE InstantOut("Buy", Some(price), Some(tp), Some(sl),
                        Some(Round2(QDiv(QSub(tp, price), QSub(price, sl)))))
InstantSell(price, c1, c2) ==
    LET sl == Q(IF c1.high >= c2.high THEN c1.high ELSE c2.high)
        tp == QSub(price, QMulInt(QSub(sl, price), RiskReward))
    IN  IF QSub(sl, price).n = 0 THEN InstantRaised
        ELSE InstantOut("Sell", Some(price), Some(tp), Some(sl),
                        Some(Round2(QDiv(QSub(price, tp), QSub(sl, price)))))

\* What is returned below InstantMinBars bars.
InstantShort(bars) ==
    InstantOut("None",
               IF Len(bars) = 0 THEN None ELSE Some(Q(bars[Len(bars)].close)),
               None, None, None)

\* compute_signal_instant deciding from two bars on.
compute_signal_instant_two_bars(df_1m) ==
    IF ~df_1m.present THEN InstantRaised
    ELSE IF Len(df_1m.bars) < 2 THEN InstantShort(df_1m.bars)
    ELSE LET bars == df_1m.bars
             ema20 == ema(Closes(bars), InstantSpan)
             c1 == bars[Len(bars)]
             c2 == bars[Len(bars) - 1]
             price == Q(c1.close)
         IN  IF BullEngulf(c1, c2, ema20) THEN InstantBuy(price, c1, c2)
             ELSE IF BearEngulf(c1, c2, ema20) THEN InstantSell(price, c1, c2)
             ELSE InstantOut("None", Some(price), None, None, None)

\* compute_signal_instant with BullEngulf_no_body for BullEngulf.
compute_signal_instant_no_body(df_1m) ==
    IF ~df_1m.present THEN InstantRaised
    ELSE IF Len(df_1m.bars) < InstantMinBars THEN InstantShort(df_1m.bars)
    ELSE LET bars == df_1m.bars
             ema20 == ema(Closes(bars), InstantSpan)
             c1 == bars[Len(bars)]
             c2 == bars[Len(bars) - 1]
             price == Q(c1.close)
         IN  IF BullEngulf_no_body(c1, c2, ema20) THEN InstantBuy(price, c1, c2)
             ELSE IF BearEngulf(c1, c2, ema20) THEN InstantSell(price, c1, c2)
             ELSE InstantOut("None", Some(price), None, None, None)

compute_signal_instant(df_1m) ==
    \* len(df_1m) of line 105 raises on None
    IF ~df_1m.present THEN InstantRaised
    ELSE IF Len(df_1m.bars) < InstantMinBars THEN InstantShort(df_1m.bars)
    ELSE LET bars == df_1m.bars
             ema20 == ema(Closes(bars), InstantSpan)
             c1 == bars[Len(bars)]
             c2 == bars[Len(bars) - 1]
             price == Q(c1.close)
         IN  IF BullEngulf(c1, c2, ema20) THEN InstantBuy(price, c1, c2)
             ELSE IF BearEngulf(c1, c2, ema20) THEN InstantSell(price, c1, c2)
             ELSE InstantOut("None", Some(price), None, None, None)

---------------------------------------------------------------------------
(* trade_signal (src/app.py:44-54).  The signal None is "null".             *)

TradeOut(signal, entry, tp) ==
    [signal |-> signal, entry |-> entry, tp |-> tp, raised |-> FALSE]
\* df["close"].iloc[-1] of a frame without rows.
TradeRaised == [signal |-> "", entry |-> None, tp |-> None, raised |-> TRUE]

\* trade_signal testing the distance to the low first.
trade_signal_sell_first(df, min_points) ==
    IF Len(df.bars) = 0 THEN TradeRaised
    ELSE LET latest_price == df.bars[Len(df.bars)].close
             recent_high == MaxOf({df.bars[i].high : i \in 1..Len(df.bars)})
             recent_low == MinOf({df.bars[i].low : i \in 1..Len(df.bars)})
         IN  IF latest_price - recent_low >= min_points
             THEN TradeOut("SELL", Some(Q(latest_price)), Some(Q(latest_price - min_points)))
             ELSE IF recent_high - latest_price >= min_points
             THEN TradeOut("BUY", Some(Q(latest_price)), Some(Q(latest_price + min_points)))
             ELSE TradeOut("null", Some(Q(latest_price)), None)

trade_signal(df, min_points) ==
    IF Len(df.bars) = 0 THEN TradeRaised
    ELSE LET latest_price == df.bars[Len(df.bars)].close
             recent_high == MaxOf({df.bars[i].high : i \in 1..Len(df.bars)})
             recent_low == MinOf({df.bars[i].low : i \in 1..Len(df.bars)})
         IN  IF recent_high - latest_price >= min_points
             THEN TradeOut("BUY", Some(Q(latest_price)), Some(Q(latest_price + min_points)))
             ELSE IF latest_price - recent_low >= min_points
             THEN TradeOut("SELL", Some(Q(latest_price)), Some(Q(latest_price - min_points)))
             ELSE TradeOut("null", Some(Q(latest_price)), None)

---------------------------------------------------------------------------
(* reversal_sniper (src/main_bias_reversal_final_fix.py:183-285); atr,      *)
(* ema_dir, swings_24h and MIN_TP of that file are those of src/main.py.    *)

SniperOut(signal, entry, tp, sl, reason, score, label) ==
    [signal |-> signal, entry |-> entry, tp |-> tp, sl |-> sl, reason |-> reason,
     confidence_score |-> score, confidence_label |-> label]

\* Lines 218-231: the last k+1 closes of the 1-minute frame rise (fall)
\* strictly, k = 2 for two_up/two_down and k = 3 for three_up/three_down;
\* False below 4 bars.
ClosesMove(df_1m, k, up) ==
    LET n == Len(df_1m.bars)
    IN  /\ n >= 4
        /\ \A i \in (n - k)..(n - 1) :
               IF up THEN df_1m.bars[i].close < df_1m.bars[i + 1].close
               ELSE df_1m.bars[i].close > df_1m.bars[i + 1].close

\* SniperScore with one point for the swing level instead of two.
SniperScore_near_one(bias, dist_low, dist_high, tol, atr15, dir5, three_up, three_down) ==
    (IF bias = "LONG" /\ QLe(dist_low, tol) THEN 1 ELSE 0)
    + (IF bias = "SHORT" /\ QLe(dist_high, tol) THEN 1 ELSE 0)
    + (IF QLe(tol, atr15) THEN 1 ELSE 0)
    + (IF (bias = "LONG" /\ dir5 = "BUY") \/ (bias = "SHORT" /\ dir5 = "SELL") THEN 1 ELSE 0)
    + (IF (bias = "LONG" /\ three_up) \/ (bias = "SHORT" /\ three_down) THEN 1 ELSE 0)

\* Lines 233-243.
SniperScore(bias, dist_low, dist_high, tol, atr15, dir5, three_up, three_down) ==
    (IF bias = "LONG" /\ QLe(dist_low, tol) THEN 2 ELSE 0)
    + (IF bias = "SHORT" /\ QLe(dist_high, tol) THEN 2 ELSE 0)
    + (IF QLe(tol, atr15) THEN 1 ELSE 0)
    + (IF (bias = "LONG" /\ dir5 = "BUY") \/ (bias = "SHORT" /\ dir5 = "SELL") THEN 1 ELSE 0)
    + (IF (bias = "LONG" /\ three_up) \/ (bias = "SHORT" /\ three_down) THEN 1 ELSE 0)

\* SniperLabel with Medium and High each one point dearer.
SniperLabel_one_dearer(score) ==
    IF score >= 5 THEN "High" ELSE IF score = 4 THEN "Medium" ELSE "Low"

\* Lines 245-253.
SniperLabel(score) ==
    IF score >= 4 THEN "High" ELSE IF score = 3 THEN "Medium" ELSE "Low"

reversal_sniper(entry, df_15m, df_5m, df_1m, bias, instrument) ==
    LET mapped_min == MappedMin(instrument, Q(5))
        early(reason) == SniperOut("NO TRADE", None, None, None, reason, 0, "Low")
        sw == swings_24h(df_15m)
    IN  IF ~entry.some \/ ~df_15m.present \/ ~df_1m.present THEN early("insufficient_data")
        ELSE IF ~sw.high.some \/ ~sw.low.some THEN early("no_swings")
        ELSE
        LET e == Val(entry)
            a == atr(df_15m, AtrPeriod)
            \* atr(df_15m) or 0.0
            atr15 == IF a.some THEN Val(a) ELSE Q(0)
            tol == QMax(QMax(mapped_min, atr15), QMul(QAbs(e), Norm(15, 10000)))
            dist_low == QSub(e, Val(sw.low))
            dist_high == QSub(Val(sw.high), e)
            dir5 == ema_dir(df_5m, FastWin, SlowWin)
            dir1 == ema_dir(df_1m, FastWin, SlowWin)
            two_up == ClosesMove(df_1m, 2, TRUE)
            two_down == ClosesMove(df_1m, 2, FALSE)
            three_up == ClosesMove(df_1m, 3, TRUE)
            three_down == ClosesMove(df_1m, 3, FALSE)
            score == SniperScore(bias, dist_low, dist_high, tol, atr15, dir5,
                                 three_up, three_down)
            label == SniperLabel(score)
            none(reason) == SniperOut("NO TRADE", None, None, None, reason, score, label)
            buffer == SwingBuffer(e)
            sl_dist == IF label = "High" THEN QMul(tol, Norm(3, 4)) ELSE tol
            stop == QMax(atr15, QDivInt(sl_dist, 2))
            tp_long == QAdd(e, QMax(mapped_min,
                                    QDivInt(QSub(QSub(Val(sw.high), buffer), e), 2)))
            tp_short == QSub(e, QMax(mapped_min,
                                     QDivInt(QSub(e, QAdd(Val(sw.low), buffer)), 2)))
        IN  IF bias = "LONG"
            THEN IF /\ QLe(dist_low, tol) /\ two_up
                    /\ (label = "High" \/ dir5 = "BUY") /\ dir1 = "BUY"
                    /\ QLe(mapped_min, QSub(tp_long, e))
                 THEN SniperOut("BUY", Some(Round6(e)), Some(Round6(tp_long)),
                                Some(Round6(QSub(e, stop))), "reversal_long", score, label)
                 ELSE none("no_long_conditions")
            ELSE IF bias = "SHORT"
            THEN IF /\ QLe(dist_high, tol) /\ two_down
                    /\ (label = "High" \/ dir5 = "SELL") /\ dir1 = "SELL"
                    /\ QLe(mapped_min, QSub(e, tp_short))
                 THEN SniperOut("SELL", Some(Round6(e)), Some(Round6(tp_short)),
                                Some(Round6(QAdd(e, stop))), "reversal_short", score, label)
                 ELSE none("no_short_conditions")
            ELSE none("bias_sideways")

---------------------------------------------------------------------------
(* The cache and fetch_oanda_candles (src/main.py:56-111).                  *)

CACHE_TTL == 20

\* f"{instrument}:{granularity}" of two requests.
Keys == {"XAU_USD:M15", "XAU_USD:M1"}

\* CACHE.get(key): None, or the record cache_set stored.
NoRec == [set |-> FALSE, val |-> NoFrame, ts |-> 0]
Rec(val, ts) == [set |-> TRUE, val |-> val, ts |-> ts]

\* cache_get serving a record that is exactly CACHE_TTL old (<= for <).
cache_get_inclusive(cache, key, t) ==
    LET rec == cache[key]
    IN  IF rec.set /\ t - rec.ts <= CACHE_TTL THEN rec.val ELSE NoFrame

\* cache_get at time t: the stored value, or None.
cache_get(cache, key, t) ==
    LET rec == cache[key]
    IN  IF rec.set /\ t - rec.ts < CACHE_TTL THEN rec.val ELSE NoFrame

\* cache_set at time t.
cache_set(cache, key, val, t) == [cache EXCEPT ![key] = Rec(val, t)]

\* What the provider answers: the request fails (no connection, an HTTP
\* error status, a body that cannot be read), or it delivers candles, each
\* with its time and its "complete" mark, in any order.
ProviderCandle(t, complete) == [time |-> t, complete |-> complete]
RECURSIVE CandleSeqs(_, _)
CandleSeqs(times, k) ==
    IF k = 0 THEN {<<>>}
    ELSE {<<>>} \cup
         {<<ProviderCandle(t, c)>> \o rest :
             t \in times, c \in BOOLEAN, rest \in CandleSeqs(times, k - 1)}
HasDistinctTimes(candles) ==
    \A i, j \in 1..Len(candles) : i # j => candles[i].time # candles[j].time
Responses ==
    {[failed |-> TRUE, candles |-> <<>>]}
    \cup {[failed |-> FALSE, candles |-> cs] :
             cs \in {x \in CandleSeqs(1..MaxCandles, MaxCandles) : HasDistinctTimes(x)}}
NoResponse == [failed |-> FALSE, candles |-> <<>>]

\* The row of lines 92-98 for a candle: its time and its mid prices.
Row(c) ==
    [time |-> c.time, open |-> BasePrice + c.time, high |-> BasePrice + c.time,
     low |-> BasePrice + c.time, close |-> BasePrice + c.time]

\* CompleteRows without the test of the "complete" mark.
RECURSIVE CompleteRows_all(_)
CompleteRows_all(candles) ==
    IF candles = <<>> THEN <<>>
    ELSE <<Row(candles[1])>> \o CompleteRows_all(Tail(candles))

\* Lines 89-98: the rows of the candles marked complete, in provider order.
RECURSIVE CompleteRows(_)
CompleteRows(candles) ==
    IF candles = <<>> THEN <<>>
    ELSE IF candles[1].complete
         THEN <<Row(candles[1])>> \o CompleteRows(Tail(candles))
         ELSE CompleteRows(Tail(candles))

\* set_index("time").sort_index(): ascending by time.
RECURSIVE SortByTime(_)
SortByTime(rows) ==
    IF rows = <<>> THEN <<>>
    ELSE LET m == CHOOSE i \in 1..Len(rows) :
                      \A j \in 1..Len(rows) : rows[i].time <= rows[j].time
             rest == [k \in 1..(Len(rows) - 1) |-> IF k < m THEN rows[k] ELSE rows[k + 1]]
         IN  <<rows[m]>> \o SortByTime(rest)

\* Lines 79-111, after a cache miss: what is stored and returned.
FetchedFrame(resp) ==
    IF resp.failed THEN NoFrame
    ELSE IF resp.candles = <<>> THEN NoFrame
    ELSE LET rows == CompleteRows(resp.candles)
         IN  IF rows = <<>> THEN NoFrame ELSE Frame(SortByTime(rows))

---------------------------------------------------------------------------
(* The frames the provider can deliver.                                    *)

RECURSIVE SeqsUpTo(_, _)
SeqsUpTo(S, k) ==
    IF k = 0 THEN {<<>>}
    ELSE LET shorter == SeqsUpTo(S, k - 1)
         IN  shorter \cup {Append(s, x) : s \in {t \in shorter : Len(t) = k - 1}, x \in S}

\* Candles with open = high = low = close.
FlatCandles == {Candle(p * PriceStep, p * PriceStep, p * PriceStep, p * PriceStep) :
                   p \in 1..MaxClose}

\* Candles with a wick: low <= open = close <= high.
WickCandles ==
    {Candle(c * PriceStep, h * PriceStep, l * PriceStep, c * PriceStep) :
        <<l, c, h>> \in {t \in (1..MaxPx) \X (1..MaxPx) \X (1..MaxPx) :
                            t[1] <= t[2] /\ t[2] <= t[3]}}

\* A trend of n bars from BasePrice, `step` a bar, each bar with a wick, the
\* oldest bar with a spike above and below.
Bars(n, step, wick, spikeHi, spikeLo) ==
    [i \in 1..n |->
        LET c == BasePrice + (i - 1) * step
        IN  Candle(c, c + wick + (IF i = 1 THEN spikeHi ELSE 0),
                   c - wick - (IF i = 1 THEN spikeLo ELSE 0), c)]

\* The same trend from another price.
BarsAt(base, n, step, wick, spikeHi, spikeLo) ==
    [i \in 1..n |->
        LET c == base + (i - 1) * step
        IN  Candle(c, c + wick + (IF i = 1 THEN spikeHi ELSE 0),
                   c - wick - (IF i = 1 THEN spikeLo ELSE 0), c)]

\* Closes rising by 1 a bar from BasePrice, every bar with a true range of 1
\* (open = low = the close before, high = close).
RisingByOne(n) ==
    [i \in 1..n |->
        LET c == BasePrice + (i - 1)
        IN  Candle(c - 1, c, c - 1, c)]
FramesRising == {Frame(RisingByOne(n)) : n \in {SlowWin + 2, SlowWin + 3}}

Steps == {-PriceStep, 0, PriceStep}
Spike == 10 * PriceStep

FramesH1 ==
    {NoFrame, Frame(Bars(MaMinBars - 1, PriceStep, 0, 0, 0))}
    \cup {Frame(Bars(MaMinBars, step, 0, 0, 0)) : step \in {0, PriceStep}}
FramesM15 ==
    {NoFrame} \cup {Frame(Bars(n, step, wick, hi, lo)) :
                       n \in {SlowWin + 1, SlowWin + 2, SwingWindow + 1},
                       step \in Steps, wick \in {0},
                       <<hi, lo>> \in {<<0, 0>>, <<Spike, 0>>, <<0, Spike>>}}
FramesM5 ==
    {NoFrame} \cup {Frame(Bars(n, step, 0, 0, 0)) :
                       n \in {SlowWin + 1, SlowWin + 2}, step \in Steps}
FramesM1 ==
    {NoFrame} \cup {Frame(Bars(n, step, wick, 0, 0)) :
                       n \in {1, SlowWin + 1, SlowWin + 2},
                       step \in Steps \cup {-1, 1}, wick \in {0, 3}}

Delivered(tf) ==
    CASE tf = "H1" -> FramesH1
      [] tf = "M15" -> FramesM15
      [] tf = "M5" -> FramesM5
      [] tf = "M1" -> FramesM1

\* One mapped instrument of each index floor, and a symbol MIN_TP lacks.
Symbols == {"XAU_USD", "GER40_EUR", "UNMAPPED"}

---------------------------------------------------------------------------
(* One request: analyze_instrument fetches the four frames in the order    *)
(* of lines 209-212 and analyses them.                                     *)

NoOut ==
    [returned |-> FALSE, raised |-> FALSE, primary_bias |-> "UNKNOWN", ma50 |-> None,
     min_10 |-> NoTrade("unknown", "null", "null", "null", "null"),
     min_5 |-> NoTrade("unknown", "null", "null", "null", "null"),
     chart |-> <<>>]

Idle ==
    [name |-> "idle", entry |-> None, direction |-> "null", min_tp_base |-> Q(0),
     bias |-> "null", min_points |-> 0]
NoRet ==
    [str |-> "", num |-> None, tp |-> None, sl |-> None, raised |-> FALSE,
     highs |-> <<>>, lows |-> <<>>,
     sniper |-> SniperOut("", None, None, None, "", 0, ""),
     rr |-> None, hi |-> None, lo |-> None, fvgs |-> <<>>]

NoOp ==
    [op |-> "none", key |-> "null", val |-> NoFrame, fresh |-> FALSE,
     requested |-> FALSE, resp |-> NoResponse, after_failure |-> FALSE]

FetchOrder == <<"H1", "M15", "M5", "M1">>

Init ==
    /\ pc = 0
    /\ symbol = "null"
    /\ frames = [tf \in TF |-> NoFrame]
    /\ out = NoOut
    /\ fn_df = NoFrame
    /\ fn_call = Idle
    /\ fn_ret = NoRet
    /\ CACHE = [k \in Keys |-> NoRec]
    /\ clock = 0
    /\ last_set = [k \in Keys |-> NoRec]
    /\ cache_op = NoOp

Request ==
    /\ pc = 0
    /\ \E sym \in Symbols : symbol' = sym
    /\ pc' = 1
    /\ UNCHANGED <<frames, out, fn_df, fn_call, fn_ret, cacheVars>>

\* fetch_oanda_candles(oanda_symbol, granularity): None or a frame.
Fetch ==
    /\ pc \in 1..Len(FetchOrder)
    /\ \E df \in Delivered(FetchOrder[pc]) :
           frames' = [frames EXCEPT ![FetchOrder[pc]] = df]
    /\ pc' = pc + 1
    /\ UNCHANGED <<symbol, out, fn_df, fn_call, fn_ret, cacheVars>>

Analyze ==
    /\ pc = Len(FetchOrder) + 1
    /\ out' = analyze_instrument(symbol, frames["H1"], frames["M15"],
                                 frames["M5"], frames["M1"])
    /\ pc' = pc + 1
    /\ UNCHANGED <<symbol, frames, fn_df, fn_call, fn_ret, cacheVars>>

Next == Request \/ Fetch \/ Analyze

Spec == Init /\ [][Next]_vars

---------------------------------------------------------------------------
(* The functions called on their own.                                      *)

\* Frames of up to period + 1 bars for atr.
FramesAtr(period) == {NoFrame} \cup {Frame(b) : b \in SeqsUpTo(WickCandles, period + 1)}
\* Frames of up to slow + 2 bars for ema_dir.
FramesEma(slow) ==
    {NoFrame} \cup {Frame(b) : b \in SeqsUpTo(FlatCandles, slow + 2)} \cup FramesRising
\* 15-minute frames of an instrument priced where the swing buffer is
\* proportional to the entry.
FramesHigh ==
    {Frame(BarsAt(HighPrice, n, step, 0, hi, lo)) :
        n \in {SwingMinBars, AtrPeriod + 1}, step \in Steps,
        <<hi, lo>> \in {<<0, 0>>, <<Spike, 0>>, <<0, Spike>>}}
\* (entry, df_15m) pairs: entries on the price grid of the frame.
TpInputs(swing_min) ==
    (({None} \cup {Some(Q(p * PriceStep)) : p \in 1..MaxPx})
        \X ({NoFrame} \cup {Frame(b) : b \in SeqsUpTo(WickCandles, swing_min)}))
    \cup ({Some(Q(BasePrice + k * PriceStep)) : k \in {-1, 0, 1}} \X FramesM15)
    \cup ({Some(Q(HighPrice + k * PriceStep)) : k \in {-1, 0, 1}} \X FramesHigh)
    \cup {<<Some(Q(df.bars[Len(df.bars)].close)), df>> : df \in FramesRising}
Floors == {Q(5), Q(10)}

CallAtr ==
    /\ fn_call.name = "idle"
    /\ \E df \in FramesAtr(AtrPeriod) :
           /\ fn_df' = df
           /\ fn_ret' = IF AtrRaises(df)
                        THEN [NoRet EXCEPT !.raised = TRUE]
                        ELSE [NoRet EXCEPT !.num = atr(df, AtrPeriod)]
    /\ fn_call' = [Idle EXCEPT !.name = "atr"]
    /\ UNCHANGED <<pc, symbol, frames, out, cacheVars>>

CallEmaDir ==
    /\ fn_call.name = "idle"
    /\ \E df \in FramesEma(SlowWin) :
           /\ fn_df' = df
           /\ fn_ret' = [NoRet EXCEPT !.str = ema_dir(df, FastWin, SlowWin)]
    /\ fn_call' = [Idle EXCEPT !.name = "ema_dir"]
    /\ UNCHANGED <<pc, symbol, frames, out, cacheVars>>

CallComputeTpSl ==
    /\ fn_call.name = "idle"
    /\ \E inp \in TpInputs(SwingMinBars), direction \in {"BUY", "SELL"}, min_tp_base \in Floors :
           /\ fn_call' = [Idle EXCEPT !.name = "compute_tp_sl", !.entry = inp[1],
                                      !.direction = direction,
                                      !.min_tp_base = min_tp_base]
           /\ fn_df' = inp[2]
           /\ fn_ret' =
                 LET r == compute_tp_sl(inp[1], direction, inp[2], "XAU_USD",
                                        min_tp_base)
                 IN  [NoRet EXCEPT !.str = r.flag, !.tp = r.tp, !.sl = r.sl,
                                   !.raised = r.raised]
    /\ UNCHANGED <<pc, symbol, frames, out, cacheVars>>

NextFn == CallEmaDir \/ CallComputeTpSl

SpecFn == Init /\ [][NextFn]_vars

\* atr called on its own.
NextAtr == CallAtr

SpecAtr == Init /\ [][NextAtr]_vars

---------------------------------------------------------------------------
(* swing_points called on its own (src/main_update4_diag.py:174).           *)

\* The frames of the calls: short ones with every combination of highs and
\* lows, and longer ones of two candle shapes, long enough for more than
\* SwingKeep candidates.
SwingShape(up) ==
    IF up = 1
    THEN Candle(BasePrice + PriceStep, BasePrice + 2 * PriceStep,
                BasePrice + PriceStep, BasePrice + 2 * PriceStep)
    ELSE Candle(BasePrice, BasePrice + PriceStep, BasePrice, BasePrice + PriceStep)
SwingMaxLen == 2 * SwingRadius + SwingKeep + 1
SwingLens == (2 * SwingRadius + 2)..SwingMaxLen
ShortSwingBars(radius) == SeqsUpTo(WickCandles, radius + 2)
LongSwingBars(n, f) == [i \in 1..n |-> SwingShape(f[i])]

SwingCall(df) ==
    /\ fn_df' = df
    /\ fn_ret' = LET r == swing_points(df, SwingRadius, SwingRadius)
                 IN  [NoRet EXCEPT !.highs = r.highs, !.lows = r.lows]

CallSwingPoints ==
    /\ fn_call.name = "idle"
    /\ \/ \E b \in ShortSwingBars(SwingRadius) : SwingCall(Frame(b))
       \/ \E n \in SwingLens : \E f \in [1..n -> {0, 1}] :
              SwingCall(Frame(LongSwingBars(n, f)))
    /\ fn_call' = [Idle EXCEPT !.name = "swing_points"]
    /\ UNCHANGED <<pc, symbol, frames, out, cacheVars>>

NextSwing == CallSwingPoints

SpecSwing == Init /\ [][NextSwing]_vars

---------------------------------------------------------------------------
(* The cache under its three callers: cache_set and cache_get on their own, *)
(* fetch_oanda_candles, and the passing of time.                            *)

\* The answers of at most one candle.
ShortResponses == {resp \in Responses : Len(resp.candles) <= 1}

\* The values cache_set is given: None or a frame.
CacheValues == {FetchedFrame(resp) : resp \in ShortResponses}

\* The latest cache_set of the key stored a frame less than CACHE_TTL ago.
Fresh(key) ==
    /\ last_set[key].set /\ last_set[key].val.present
    /\ clock - last_set[key].ts < CACHE_TTL

CacheSet ==
    /\ \E key \in Keys, val \in CacheValues :
           /\ CACHE' = cache_set(CACHE, key, val, clock)
           /\ last_set' = [last_set EXCEPT ![key] = Rec(val, clock)]
           /\ cache_op' = [NoOp EXCEPT !.op = "set", !.key = key, !.val = val]
    /\ UNCHANGED <<clock, pc, symbol, frames, out, fn_df, fn_call, fn_ret>>

CacheGet ==
    /\ \E key \in Keys :
           cache_op' = [NoOp EXCEPT !.op = "get", !.key = key,
                                    !.val = cache_get(CACHE, key, clock)]
    /\ UNCHANGED <<CACHE, clock, last_set, pc, symbol, frames, out, fn_df, fn_call, fn_ret>>

\* time.time() moves on, by just under or by exactly the time to live.
Tick ==
    /\ \E d \in {CACHE_TTL - 1, CACHE_TTL} :
           /\ clock + d <= MaxClock
           /\ clock' = clock + d
    /\ cache_op' = NoOp
    /\ UNCHANGED <<CACHE, last_set, pc, symbol, frames, out, fn_df, fn_call, fn_ret>>

\* The latest cache_set of the key stored None (a failed fetch) less than
\* CACHE_TTL ago.
StoredFailure(key) ==
    /\ last_set[key].set /\ ~last_set[key].val.present
    /\ clock - last_set[key].ts < CACHE_TTL

\* Fetching serving whatever record is younger than CACHE_TTL, a stored None
\* included.
Fetching_serves_failure(answers) ==
    /\ \E key \in Keys :
           IF CACHE[key].set /\ clock - CACHE[key].ts < CACHE_TTL
           THEN /\ cache_op' = [NoOp EXCEPT !.op = "fetch", !.key = key,
                                            !.val = CACHE[key].val,
                                            !.fresh = Fresh(key),
                                            !.after_failure = StoredFailure(key)]
                /\ UNCHANGED <<CACHE, last_set>>
           ELSE \E resp \in answers :
                    LET df == FetchedFrame(resp)
                    IN  /\ CACHE' = cache_set(CACHE, key, df, clock)
                        /\ last_set' = [last_set EXCEPT ![key] = Rec(df, clock)]
                        /\ cache_op' = [NoOp EXCEPT !.op = "fetch", !.key = key,
                                                    !.val = df, !.fresh = Fresh(key),
                                                    !.after_failure = StoredFailure(key),
                                                    !.requested = TRUE, !.resp = resp]
    /\ UNCHANGED <<clock, pc, symbol, frames, out, fn_df, fn_call, fn_ret>>

\* fetch_oanda_candles(instrument, granularity) where the provider answers
\* with one of `answers`: a cached frame is returned without a request;
\* otherwise (nothing cached, or None cached) the provider is asked and what
\* comes of its answer is stored and returned.
Fetching(answers) ==
    /\ \E key \in Keys :
           LET cached == cache_get(CACHE, key, clock)
           IN  IF cached.present
               THEN /\ cache_op' = [NoOp EXCEPT !.op = "fetch", !.key = key, !.val = cached,
                                                !.fresh = Fresh(key),
                                                !.after_failure = StoredFailure(key)]
                    /\ UNCHANGED <<CACHE, last_set>>
               ELSE \E resp \in answers :
                        LET df == FetchedFrame(resp)
                        IN  /\ CACHE' = cache_set(CACHE, key, df, clock)
                            /\ last_set' = [last_set EXCEPT ![key] = Rec(df, clock)]
                            /\ cache_op' = [NoOp EXCEPT !.op = "fetch", !.key = key,
                                                        !.val = df, !.fresh = Fresh(key),
                                                        !.after_failure = StoredFailure(key),
                                                        !.requested = TRUE, !.resp = resp]
    /\ UNCHANGED <<clock, pc, symbol, frames, out, fn_df, fn_call, fn_ret>>

\* Under the passing of time the provider answers with at most one candle.
FetchCandles == Fetching(ShortResponses)

NextCache == CacheSet \/ CacheGet \/ Tick \/ FetchCandles

SpecCache == Init /\ [][NextCache]_vars

---------------------------------------------------------------------------
(* fetch_oanda_candles under every answer of the provider, at one moment.   *)

FetchAnyAnswer == Fetching(Responses)

NextFetch == FetchAnyAnswer

SpecFetch == Init /\ [][NextFetch]_vars

---------------------------------------------------------------------------
(* reversal_sniper called on its own                                        *)
(* (src/main_bias_reversal_final_fix.py:422).                               *)

\* Closes level at BasePrice and then moving by the four offsets of `tail`.
TailBars(n, tail) ==
    [i \in 1..n |->
        LET c == BasePrice + (IF i > n - 4 THEN tail[i - (n - 4)] ELSE 0)
        IN  Candle(c, c, c, c)]
SniperTails ==
    {<<1, 2, 3, 4>>, <<-1, -2, -3, -4>>, <<2, 1, 2, 3>>, <<-2, -1, -2, -3>>, <<0, 0, 0, 0>>}
Sniper15 ==
    {NoFrame}
    \cup {Frame(Bars(n, t[1], t[2], t[3], t[3])) :
             n \in {SwingMinBars - 1, AtrPeriod + 1},
             t \in {<<0, 0, 0>>, <<0, PriceStep, 0>>, <<0, PriceStep, Spike>>,
                    <<PriceStep, 0, 0>>}}
Sniper5 ==
    {NoFrame} \cup {Frame(Bars(SlowWin + 2, step, 0, 0, 0)) : step \in {-PriceStep, PriceStep}}
Sniper1 ==
    {NoFrame, Frame(Bars(3, 1, 0, 0, 0))}
    \cup {Frame(TailBars(SlowWin + 2, tail)) : tail \in SniperTails}
\* The entry is the latest 1-minute close, or None.
SniperEntries(df_1m) ==
    {None} \cup (IF df_1m.present /\ Len(df_1m.bars) > 0
                 THEN {Some(Q(df_1m.bars[Len(df_1m.bars)].close))}
                 ELSE {Some(Q(BasePrice))})
Biases == {"LONG", "SHORT", "SIDEWAYS"}
SniperSymbols == {"EUR_USD", "GER40_EUR", "UNMAPPED"}

CallReversalSniper ==
    /\ fn_call.name = "idle"
    /\ \E df_15m \in Sniper15, df_5m \in Sniper5, df_1m \in Sniper1,
          bias \in Biases, instrument \in SniperSymbols :
           \E entry \in SniperEntries(df_1m) :
               /\ frames' = [frames EXCEPT !["M15"] = df_15m, !["M5"] = df_5m,
                                           !["M1"] = df_1m]
               /\ symbol' = instrument
               /\ fn_call' = [Idle EXCEPT !.name = "reversal_sniper", !.entry = entry,
                                          !.bias = bias]
               /\ fn_ret' = [NoRet EXCEPT !.sniper =
                                reversal_sniper(entry, df_15m, df_5m, df_1m, bias,
                                                instrument)]
    /\ UNCHANGED <<pc, out, fn_df, cacheVars>>

NextSniper == CallReversalSniper

SpecSniper == Init /\ [][NextSniper]_vars

---------------------------------------------------------------------------
(* The functions that answer for too little history, called on frames of    *)
(* every length from none to one bar more than they ask for                 *)
(* (src/main.py:219-224, src/main_update4_diag.py:175).                     *)

HistoryLens == 0..(SlowWin + 2)

\* Candles of any four prices, well-formed (low <= open, close <= high) or not.
BodyCandles ==
    {Candle(o * PriceStep, h * PriceStep, l * PriceStep, c * PriceStep) :
        o \in 1..InstantPx, h \in 1..InstantPx, l \in 1..InstantPx, c \in 1..InstantPx}
\* Those with low <= min(open, close) and max(open, close) <= high.
SoundCandles ==
    {k \in BodyCandles : /\ k.low <= k.open /\ k.low <= k.close
                         /\ k.open <= k.high /\ k.close <= k.high}
\* n bars: level at p price steps, then c2, then c1.
InstantBars(n, p, c2, c1) ==
    [i \in 1..n |->
        IF i = n THEN c1
        ELSE IF i = n - 1 THEN c2
        ELSE Candle(p * PriceStep, p * PriceStep, p * PriceStep, p * PriceStep)]
InstantLens == 0..(InstantMinBars + 1)

EmaDirCall(df) ==
    /\ fn_df' = df
    /\ fn_ret' = [NoRet EXCEPT !.str = ema_dir(df, FastWin, SlowWin)]
OneMinConfirmCall(df) ==
    /\ fn_df' = df
    /\ fn_ret' = [NoRet EXCEPT !.str = one_min_confirm(df)]
Swings24hCall(df) ==
    /\ fn_df' = df
    /\ fn_ret' = LET r == swings_24h(df)
                 IN  [NoRet EXCEPT !.hi = r.high, !.lo = r.low]
SignalInstantCall(df) ==
    /\ fn_df' = df
    /\ fn_ret' = LET r == compute_signal_instant(df)
                 IN  [NoRet EXCEPT !.str = r.direction, !.num = r.price,
                                   !.tp = r.take_profit, !.sl = r.stop_loss,
                                   !.rr = r.risk_reward, !.raised = r.raised]

EmaDirOnHistory ==
    /\ fn_call.name = "idle"
    /\ \/ EmaDirCall(NoFrame)
       \/ \E n \in HistoryLens : \E f \in [1..n -> {0, 1}] :
              EmaDirCall(Frame(LongSwingBars(n, f)))
    /\ fn_call' = [Idle EXCEPT !.name = "ema_dir"]
    /\ UNCHANGED <<pc, symbol, frames, out, cacheVars>>

OneMinConfirmOnHistory ==
    /\ fn_call.name = "idle"
    /\ \/ OneMinConfirmCall(NoFrame)
       \/ \E n \in HistoryLens : \E f \in [1..n -> {0, 1}] :
              OneMinConfirmCall(Frame(LongSwingBars(n, f)))
    /\ fn_call' = [Idle EXCEPT !.name = "one_min_confirm"]
    /\ UNCHANGED <<pc, symbol, frames, out, cacheVars>>

Swings24hOnHistory ==
    /\ fn_call.name = "idle"
    /\ \/ Swings24hCall(NoFrame)
       \/ \E n \in HistoryLens : \E f \in [1..n -> {0, 1}] :
              Swings24hCall(Frame(LongSwingBars(n, f)))
    /\ fn_call' = [Idle EXCEPT !.name = "swings_24h"]
    /\ UNCHANGED <<pc, symbol, frames, out, cacheVars>>

CallSignalInstant ==
    /\ fn_call.name = "idle"
    /\ \/ SignalInstantCall(NoFrame)
       \/ \E n \in InstantLens, p \in 1..MaxPx : \E c2 \in SoundCandles, c1 \in BodyCandles :
              SignalInstantCall(Frame(InstantBars(n, p, c2, c1)))
    /\ fn_call' = [Idle EXCEPT !.name = "compute_signal_instant"]
    /\ UNCHANGED <<pc, symbol, frames, out, cacheVars>>

NextHistory ==
    EmaDirOnHistory \/ OneMinConfirmOnHistory \/ Swings24hOnHistory \/ CallSignalInstant

SpecHistory == Init /\ [][NextHistory]_vars

---------------------------------------------------------------------------
(* detect_fvgs called on its own (src/main_update4_diag.py:173).            *)

\* Bars of any low and high over 0..FvgPx price steps, low <= high or not,
\* opening at the low and closing at the high.
RangeCandles ==
    {Candle(l * PriceStep, h * PriceStep, l * PriceStep, h * PriceStep) :
        l \in 0..FvgPx, h \in 0..FvgPx}
\* n bars repeating a, b, c.
FvgBars(n, a, b, c) ==
    [i \in 1..n |-> IF i % 3 = 1 THEN a ELSE IF i % 3 = 2 THEN b ELSE c]
FvgLens == 0..(2 * FvgKeep)

CallDetectFvgs ==
    /\ fn_call.name = "idle"
    /\ \E n \in FvgLens : \E a \in RangeCandles, b \in RangeCandles, c \in RangeCandles :
           LET df == Frame(FvgBars(n, a, b, c))
           IN  /\ fn_df' = df
               /\ fn_ret' = [NoRet EXCEPT !.fvgs = detect_fvgs(df, FvgKeep)]
    /\ fn_call' = [Idle EXCEPT !.name = "detect_fvgs"]
    /\ UNCHANGED <<pc, symbol, frames, out, cacheVars>>

NextFvg == CallDetectFvgs

SpecFvg == Init /\ [][NextFvg]_vars

---------------------------------------------------------------------------
(* get_data of src/app.py (lines 61-71): trade_signal on the fetched        *)
(* candles with the min_points of the route, a non-negative integer.        *)

\* Candles of any high, low and close over 0..TradePx points, whether the
\* close lies within low..high or not.
PointCandles ==
    {Candle(c, h, l, c) : h \in 0..TradePx, l \in 0..TradePx, c \in 0..TradePx}
\* n bars: the earlier ones all a, the last one b.
TradeBarsOf(n, a, b) == [i \in 1..n |-> IF i = n THEN b ELSE a]

GetData ==
    /\ fn_call.name = "idle"
    /\ \E n \in 0..TradeBars, min_points \in 0..MaxPoints :
           \E a \in PointCandles, b \in PointCandles :
               LET df == Frame(TradeBarsOf(n, a, b))
                   r == trade_signal(df, min_points)
               IN  /\ fn_df' = df
                   /\ fn_call' = [Idle EXCEPT !.name = "trade_signal",
                                              !.min_points = min_points]
                   /\ fn_ret' = [NoRet EXCEPT !.str = r.signal, !.num = r.entry,
                                              !.tp = r.tp, !.raised = r.raised]
    /\ UNCHANGED <<pc, symbol, frames, out, cacheVars>>

NextTrade == GetData

SpecTrade == Init /\ [][NextTrade]_vars

---------------------------------------------------------------------------
(* Properties.                                                             *)

Sides == {"BUY", "SELL"}
Dir(tf) == ema_dir(frames[tf], FastWin, SlowWin)
Infos == {out.min_10, out.min_5}
CalledOn(name) == fn_call.name = name /\ fn_df.present
NBars == Len(fn_df.bars)

\* The distance of a take-profit tp from the entry, on the side of the trade.
TpDistance(entry, direction, tp) ==
    IF direction = "BUY" THEN QSub(tp, entry) ELSE QSub(entry, tp)

\* C1: whenever compute_tp_sl, called with an entry, a side and a positive
\* floor, returns the flag "ok", its take-profit lies at least the floor
\* min_tp_base away from the entry on the side of the trade.
C1_TpNotBelowFloor ==
    (fn_call.name = "compute_tp_sl" /\ fn_call.entry.some /\ fn_ret.str = "ok")
        => /\ fn_ret.tp.some
           /\ QLe(fn_call.min_tp_base,
                  TpDistance(Val(fn_call.entry), fn_call.direction, Val(fn_ret.tp)))

\* A SELL that came back "ok" with a take-profit further away than the floor.
C1_Witness ==
    /\ fn_call.name = "compute_tp_sl"
    /\ fn_call.direction = "SELL"
    /\ fn_ret.str = "ok"
    /\ QLt(fn_call.min_tp_base,
           TpDistance(Val(fn_call.entry), "SELL", Val(fn_ret.tp)))

\* The same floor seen from analyze_instrument: a rule with reason "ok" has
\* its take-profit at least MIN_TP.get(symbol, min_tp) away from its entry.
TpNotBelowFloorInResults ==
    out.returned =>
        \A i \in 1..Len(Rules) :
            LET info == IF i = 1 THEN out.min_10 ELSE out.min_5
            IN  info.reason = "ok"
                    => QLe(MappedMin(symbol, Rules[i].min_tp),
                           TpDistance(Val(info.entry), info.signal, Val(info.tp)))

\* C2: a rule carries a candidate only if the 15-minute and 5-minute
\* directions are the same side; whenever they are not (one unknown, or
\* the two differ) the rule is NO TRADE with the disagreement reason.
C2_CandidateOnlyOnAgreement ==
    out.returned =>
        \A info \in Infos :
            /\ info.signal \in Sides
                  => Dir("M15") \in Sides /\ Dir("M15") = Dir("M5")
                        /\ info.signal = Dir("M15")
            /\ ~(Dir("M15") \in Sides /\ Dir("M15") = Dir("M5"))
                  => info.signal = "NO TRADE"
                        /\ info.reason = "15m and 5m do not agree"

\* 15m and 5m point opposite ways while the 1-minute frame has a direction.
C2_Witness ==
    /\ out.returned
    /\ Dir("M15") = "BUY" /\ Dir("M5") = "SELL" /\ Dir("M1") = "BUY"
    /\ out.min_5.reason = "15m and 5m do not agree"

\* C3: the 1-minute confirmation is a veto: a rule carries a candidate only
\* if the 1-minute direction is a side and is the side 15m and 5m agree on;
\* when 15m and 5m agree and it is unknown or differs, the rule is NO TRADE
\* with no entry, take-profit or stop-loss.
C3_OneMinuteVeto ==
    out.returned =>
        \A info \in Infos :
            /\ info.signal \in Sides
                  => Dir("M1") \in Sides /\ Dir("M1") = info.signal
                        /\ Dir("M1") = Dir("M15")
            /\ (Agreement(Dir("M15"), Dir("M5")) /\ Dir("M1") # Dir("M15"))
                  => info.signal = "NO TRADE" /\ info.reason # "ok"
                        /\ info = [info EXCEPT !.entry = None, !.tp = None, !.sl = None]

\* 15m and 5m agree, the 1-minute direction is the other side, the 30-minute
\* range is wide enough for the floor: the rule is vetoed all the same.
C3_Witness ==
    /\ out.returned
    /\ Dir("M15") = "BUY" /\ Dir("M5") = "BUY" /\ Dir("M1") = "SELL"
    /\ ~QLt(recent_30m_range(frames["M1"]), MappedMin(symbol, Q(5)))
    /\ out.min_5.signal = "NO TRADE"

\* C4: analyze_instrument returns for every input; in each rule the signal
\* is a side exactly when the reason is "ok", exactly when entry, tp and sl
\* are all set; otherwise the signal is NO TRADE, all three are null and
\* the reason is not the placeholder "unknown".
C4_DefiniteResult ==
    /\ pc = Len(FetchOrder) + 2 => out.returned /\ ~out.raised
    /\ out.returned =>
        \A info \in Infos :
            /\ ~info.raised
            /\ info.signal \in Sides \cup {"NO TRADE"}
            /\ info.signal \in Sides <=> info.reason = "ok"
            /\ info.reason = "ok"
                  <=> (info.entry.some /\ info.tp.some /\ info.sl.some)
            /\ info.reason # "ok"
                  => /\ info.signal = "NO TRADE"
                     /\ ~info.entry.some /\ ~info.tp.some /\ ~info.sl.some
                     /\ info.reason # "unknown"

\* The 1-minute frame is missing, 15m and 5m agree; and a run in which the
\* 30-minute range is too narrow for the floor.
C4_Witness ==
    /\ out.returned
    /\ \/ ~frames["M1"].present /\ Agreement(Dir("M15"), Dir("M5"))
             /\ out.min_10.reason = "1m EMA direction unknown"
       \/ out.min_10.reason = "Low 30m volatility" /\ out.min_5.reason = "ok"

\* C5: ema_dir returns null, never a side, for every candle sequence of
\* fewer than slow + 1 bars.
C5_ShortHistoryUnknown ==
    (CalledOn("ema_dir") /\ NBars < SlowWin + 1) => fn_ret.str = "null"

\* A sequence of exactly `slow` bars: both averages exist, no side is given.
C5_Witness ==
    CalledOn("ema_dir") /\ NBars = SlowWin /\ fn_ret.str = "null"

\* The averages ema_dir compares, on the closes of the frame it was given.
FastAvg == Ewm(Closes(fn_df.bars), FastWin, NBars)
SlowAvg == Ewm(Closes(fn_df.bars), SlowWin, NBars)

\* C6: with at least slow + 1 bars the extractor returns BUY when the fast
\* average exceeds the slow one, SELL when it is less, NEUTRAL when the two
\* are equal.
C6_ThreeWaySignal ==
    (CalledOn("ema_dir") /\ NBars >= SlowWin + 1)
        => fn_ret.str = IF QLt(SlowAvg, FastAvg) THEN "BUY"
                        ELSE IF QLt(FastAvg, SlowAvg) THEN "SELL"
                        ELSE "NEUTRAL"

StrictlyIncreasing(closes) == \A i \in 1..(Len(closes) - 1) : closes[i] < closes[i + 1]
StrictlyDecreasing(closes) == \A i \in 1..(Len(closes) - 1) : closes[i] > closes[i + 1]

\* C7 as claimed: with at least slow + 1 bars, strictly increasing closes
\* give BUY and strictly decreasing closes give SELL.
C7_MonotoneFromSlowPlus1 ==
    (CalledOn("ema_dir") /\ NBars >= SlowWin + 1)
        => /\ StrictlyIncreasing(Closes(fn_df.bars)) => fn_ret.str = "BUY"
           /\ StrictlyDecreasing(Closes(fn_df.bars)) => fn_ret.str = "SELL"

\* C7 as amended: with at least slow + 2 bars, strictly increasing closes
\* give BUY and strictly decreasing closes give SELL.
C7_MonotoneFromSlowPlus2 ==
    (CalledOn("ema_dir") /\ NBars >= SlowWin + 2)
        => /\ StrictlyIncreasing(Closes(fn_df.bars)) => fn_ret.str = "BUY"
           /\ StrictlyDecreasing(Closes(fn_df.bars)) => fn_ret.str = "SELL"

\* Rising closes with unequal steps, enough bars, and the answer BUY.
C7_Witness ==
    /\ CalledOn("ema_dir") /\ NBars >= SlowWin + 2
    /\ StrictlyIncreasing(Closes(fn_df.bars))
    /\ fn_df.bars[2].close - fn_df.bars[1].close
          # fn_df.bars[3].close - fn_df.bars[2].close
    /\ fn_ret.str = "BUY"

AllFlat(bars) ==
    \A i \in 1..Len(bars) :
        /\ bars[i].open = bars[i].close
        /\ bars[i].high = bars[i].close
        /\ bars[i].low = bars[i].close
        /\ bars[i].close = bars[1].close

\* C8: what atr returns is null or >= 0; it is null for fewer than 2 bars;
\* it is 0 for two or more perfectly flat candles of one value.
C8_AtrNonNegative ==
    CalledOn("atr") =>
        /\ ~fn_ret.raised
        /\ fn_ret.num.some => QLe(Q(0), Val(fn_ret.num))
        /\ NBars < 2 => ~fn_ret.num.some
        /\ (NBars >= 2 /\ AllFlat(fn_df.bars)) => fn_ret.num = Some(Q(0))

\* Flat candles, more of them than the period, and the answer 0.
C8_Witness ==
    /\ CalledOn("atr") /\ NBars > AtrPeriod /\ AllFlat(fn_df.bars)
    /\ fn_ret.num = Some(Q(0))

\* C9 as claimed: atr returns null for every sequence of fewer than
\* period + 1 bars.
C9_NullBelowPeriodPlus1 ==
    (CalledOn("atr") /\ NBars < AtrPeriod + 1) => ~fn_ret.num.some

\* C9 as amended: atr returns null exactly for the sequences of fewer than
\* 2 bars; from 2 bars on it returns a number, also below period + 1 bars.
C9_NullExactlyBelow2 ==
    CalledOn("atr") => (~fn_ret.num.some <=> NBars < 2)

\* Two bars, fewer than the period, and a number comes back.
C9_Witness ==
    CalledOn("atr") /\ NBars = 2 /\ NBars < AtrPeriod /\ fn_ret.num.some

RECURSIVE SumTrueRange(_, _)
SumTrueRange(bars, i) ==
    IF i < 2 THEN 0 ELSE TrueRange(bars, i) + SumTrueRange(bars, i - 1)

RECURSIVE SumCloseMoves(_, _)
SumCloseMoves(bars, i) ==
    IF i < 2 THEN 0
    ELSE Abs(bars[i].close - bars[i - 1].close) + SumCloseMoves(bars, i - 1)

\* The fallback path is the one atr takes when the library computation
\* fails, which it does below `period` bars.
OnFallback == CalledOn("atr") /\ LibraryAtrFails(fn_df.bars, AtrPeriod) /\ NBars >= 2

\* C10 as claimed: the fallback path returns the mean of the true range of
\* the bars after the first (all of them lie in the last `period` bars).
C10_FallbackMeanTrueRange ==
    OnFallback
        => /\ fn_ret.num.some
           /\ QMulInt(Val(fn_ret.num), NBars - 1) = Q(SumTrueRange(fn_df.bars, NBars))

\* C10 as amended: the fallback path returns the mean of the absolute
\* close-to-close moves |close[i] - close[i-1]| of the bars after the
\* first; highs and lows play no part.
C10_FallbackMeanCloseMove ==
    OnFallback
        => /\ fn_ret.num.some
           /\ QMulInt(Val(fn_ret.num), NBars - 1) = Q(SumCloseMoves(fn_df.bars, NBars))

\* A fallback call on bars whose true range is not their close-to-close move.
C10_Witness ==
    /\ OnFallback
    /\ SumTrueRange(fn_df.bars, NBars) # SumCloseMoves(fn_df.bars, NBars)
    /\ fn_ret.num.some

\* The bars of the called frame that qualify as swing highs / lows of radius
\* SwingRadius: inside the index bounds and no bar of the window beyond them.
InSwingBounds(i) == SwingRadius + 1 <= i /\ i <= NBars - SwingRadius
QualifyingHighs ==
    {i \in 1..NBars :
        /\ InSwingBounds(i)
        /\ \A k \in (i - SwingRadius)..(i + SwingRadius) : fn_df.bars[k].high <= fn_df.bars[i].high}
QualifyingLows ==
    {i \in 1..NBars :
        /\ InSwingBounds(i)
        /\ \A k \in (i - SwingRadius)..(i + SwingRadius) : fn_df.bars[k].low >= fn_df.bars[i].low}
Times(cands) == {cands[j].time : j \in 1..Len(cands)}

\* C11: swing_points with radius W reports bar i as a swing low exactly when
\* W <= i <= length-1-W and low[i] is the minimum low of [i-W, i+W], and as
\* a swing high with highs and maximum; bars sharing the extreme are each
\* reported; the reported price is the bar's.  (Exactly: as long as no more
\* than SwingKeep bars qualify; beyond that the reported are among them.)
C11_SwingIffWindowExtreme ==
    CalledOn("swing_points") =>
        LET qh == QualifyingHighs
            ql == QualifyingLows
            th == Times(fn_ret.highs)
            tl == Times(fn_ret.lows)
        IN
        /\ th \subseteq qh
        /\ tl \subseteq ql
        /\ Cardinality(qh) <= SwingKeep => th = qh
        /\ Cardinality(ql) <= SwingKeep => tl = ql
        /\ \A j \in 1..Len(fn_ret.highs) :
               fn_ret.highs[j].price = fn_df.bars[fn_ret.highs[j].time].high
        /\ \A j \in 1..Len(fn_ret.lows) :
               fn_ret.lows[j].price = fn_df.bars[fn_ret.lows[j].time].low

\* Two neighbouring bars share the lowest low of a window and both are
\* reported, while a bar next to them is not.
C11_Witness ==
    /\ CalledOn("swing_points")
    /\ \E i \in 1..(NBars - 1) :
           /\ fn_df.bars[i].low = fn_df.bars[i + 1].low
           /\ {i, i + 1} \subseteq Times(fn_ret.lows)
    /\ \E i \in 1..NBars : InSwingBounds(i) /\ i \notin Times(fn_ret.lows)
    /\ \E i \in 1..NBars : InSwingBounds(i) /\ i \notin Times(fn_ret.highs)

\* The SwingKeep most recent of a set of bar positions.
MostRecent(S) ==
    IF Cardinality(S) <= SwingKeep THEN S
    ELSE {i \in S : Cardinality({k \in S : k > i}) < SwingKeep}

\* C12 as claimed: highs and lows are each at most 10, are the 10 most
\* recent qualifying bars when more qualify, and are ordered by recency,
\* the candidate closest to the last index first.
C12_MostRecentFirst ==
    CalledOn("swing_points") =>
        /\ Len(fn_ret.highs) <= SwingKeep /\ Len(fn_ret.lows) <= SwingKeep
        /\ Times(fn_ret.highs) = MostRecent(QualifyingHighs)
        /\ Times(fn_ret.lows) = MostRecent(QualifyingLows)
        /\ \A j \in 1..(Len(fn_ret.highs) - 1) :
               fn_ret.highs[j].time > fn_ret.highs[j + 1].time
        /\ \A j \in 1..(Len(fn_ret.lows) - 1) :
               fn_ret.lows[j].time > fn_ret.lows[j + 1].time

\* C12 as amended: highs and lows are each at most 10, are the 10 most
\* recent qualifying bars when more qualify, each bar once, and are in the
\* order of the bars: the oldest candidate first, the most recent last.
C12_MostRecentOldestFirst ==
    CalledOn("swing_points") =>
        /\ Len(fn_ret.highs) <= SwingKeep /\ Len(fn_ret.lows) <= SwingKeep
        /\ Times(fn_ret.highs) = MostRecent(QualifyingHighs)
        /\ Times(fn_ret.lows) = MostRecent(QualifyingLows)
        /\ \A j \in 1..(Len(fn_ret.highs) - 1) :
               fn_ret.highs[j].time < fn_ret.highs[j + 1].time
        /\ \A j \in 1..(Len(fn_ret.lows) - 1) :
               fn_ret.lows[j].time < fn_ret.lows[j + 1].time

\* More than SwingKeep bars qualify as highs, the oldest of them is dropped,
\* and the lows of the same frame are fewer and all kept.
C12_Witness ==
    /\ CalledOn("swing_points")
    /\ Cardinality(QualifyingHighs) > SwingKeep
    /\ Len(fn_ret.highs) = SwingKeep
    /\ \E i \in QualifyingHighs : i \notin Times(fn_ret.highs)
    /\ Len(fn_ret.lows) > 1 /\ Len(fn_ret.lows) < SwingKeep

\* What compute_tp_sl was called with, for the statements about it.
TpCalled == fn_call.name = "compute_tp_sl" /\ fn_call.entry.some /\ fn_df.present
TpEntry == Val(fn_call.entry)
\* The ATR of the 15-minute frame, 0 when atr has none.
TpAtr ==
    LET a == atr(fn_df, AtrPeriod)
    IN  IF a.some THEN Val(a) ELSE Q(0)
TpBase == QMax(fn_call.min_tp_base, QAdd(fn_call.min_tp_base, TpAtr))
\* The swing level on the side of the trade moved toward the entry by
\* `buffer`, when there is a swing level.
BufferedSwing(buffer) ==
    LET sw == swings_24h(fn_df)
    IN  IF fn_call.direction = "BUY"
        THEN IF sw.high.some THEN Some(QSub(Val(sw.high), buffer)) ELSE None
        ELSE IF sw.low.some THEN Some(QAdd(Val(sw.low), buffer)) ELSE None
\* The take-profit the rule of C13 gives with that buffer, to 6 decimals.
RuleTp(buffer) ==
    LET cand == BufferedSwing(buffer)
    IN  IF cand.some /\ QLe(TpBase, TpDistance(TpEntry, fn_call.direction, Val(cand)))
        THEN Round6(Val(cand))
        ELSE IF fn_call.direction = "BUY" THEN Round6(QAdd(TpEntry, TpBase))
        ELSE Round6(QSub(TpEntry, TpBase))
TwoPerMille == QMul(QAbs(TpEntry), Norm(2, 1000))

\* C13 as claimed: with base distance max(floor, floor + ATR), the
\* take-profit is the swing level of the trade's side moved toward the entry
\* by 0.2% of the entry price when that lies at least the base distance from
\* the entry, and entry +/- base distance otherwise (values to 6 decimals).
C13_BufferTwoPerMille ==
    TpCalled => fn_ret.str = "ok" /\ fn_ret.tp = Some(RuleTp(TwoPerMille))

\* C13 as amended: the same with a buffer of max(0.2% of |entry|, 1.0).
C13_BufferAtLeastOne ==
    TpCalled => fn_ret.str = "ok" /\ fn_ret.tp = Some(RuleTp(QMax(TwoPerMille, Q(1))))

\* A BUY whose take-profit is the swing high less a buffer of exactly 1.0,
\* the entry being below 500.
C13_Witness ==
    /\ TpCalled /\ fn_call.direction = "BUY" /\ fn_ret.str = "ok"
    /\ QLt(TwoPerMille, Q(1))
    /\ fn_ret.tp = Some(QSub(Val(swings_24h(fn_df).high), Q(1)))
    /\ QLt(TpBase, TpDistance(TpEntry, "BUY", Val(fn_ret.tp)))

\* The stop-loss distance of C14.
SlDistance == IF QLt(Q(0), TpAtr) THEN TpAtr ELSE QDivInt(TpBase, 2)

IsScenarioB ==
    /\ fn_df.present /\ NBars >= SlowWin + 2 /\ NBars >= AtrPeriod + 1
    /\ \A i \in 1..NBars :
           /\ fn_df.bars[i].close = BasePrice + i - 1
           /\ TrueRange(fn_df.bars, i) = 1

\* C16: on the reference sequence the extractor returns BUY, and
\* compute_tp_sl called with the last close as entry, direction BUY and
\* floor 5 returns "ok" with take-profit >= entry + 5 and stop-loss =
\* entry - 1.
C16_ScenarioB ==
    IsScenarioB =>
        /\ fn_call.name = "ema_dir" => fn_ret.str = "BUY"
        /\ (/\ fn_call.name = "compute_tp_sl"
            /\ fn_call.entry = Some(Q(fn_df.bars[NBars].close))
            /\ fn_call.direction = "BUY" /\ fn_call.min_tp_base = Q(5))
              => /\ fn_ret.str = "ok"
                 /\ QLe(QAdd(TpEntry, Q(5)), Val(fn_ret.tp))
                 /\ fn_ret.sl = Some(QSub(TpEntry, Q(1)))

\* compute_tp_sl on the reference sequence: ATR is 1, the take-profit is
\* entry + 6 and the stop entry - 1.
C16_Witness ==
    /\ IsScenarioB /\ fn_call.name = "compute_tp_sl"
    /\ fn_call.direction = "BUY" /\ fn_call.min_tp_base = Q(5)
    /\ atr(fn_df, AtrPeriod) = Some(Q(1))
    /\ fn_ret.tp = Some(QAdd(TpEntry, Q(6)))
    /\ fn_ret.sl = Some(QSub(TpEntry, Q(1)))

\* Scenario A: every timeframe supplies flat candles at BasePrice, enough
\* of them for every window of the analysis.
FlatAtBase(df, minBars) ==
    /\ df.present /\ Len(df.bars) >= minBars
    /\ AllFlat(df.bars) /\ df.bars[1].close = BasePrice
IsScenarioA ==
    /\ out.returned
    /\ FlatAtBase(frames["H1"], MaMinBars)
    /\ \A tf \in {"M15", "M5", "M1"} : FlatAtBase(frames[tf], SlowWin + 2)

\* C15: in scenario A the directional signal of every timeframe is NEUTRAL
\* (not BUY or SELL), the ATR is 0, and both rules return no candidate with
\* the disagreement reason.
C15_ScenarioA ==
    IsScenarioA =>
        /\ \A tf \in {"M15", "M5", "M1"} : Dir(tf) = "NEUTRAL"
        /\ atr(frames["M15"], AtrPeriod) = Some(Q(0))
        /\ \A info \in Infos :
               info.signal = "NO TRADE" /\ info.reason = "15m and 5m do not agree"

\* The info of rule i in what analyze_instrument returned.
InfoOf(i) == IF i = 1 THEN out.min_10 ELSE out.min_5
\* The first three gates of a rule pass: 15m and 5m agree and the 1-minute
\* direction is the agreed side.
DirectionsPass == Agreement(Dir("M15"), Dir("M5")) /\ Dir("M1") = Dir("M15")

\* C19: for every instrument of ASSETS the min_10 rule checks and sizes its
\* candidate with a minimum take-profit distance of 10 and the min_5 rule
\* with 5: a rule whose directions pass is "ok" exactly when the 30-minute
\* range reaches its own floor, and its take-profit and stop-loss are those
\* of compute_tp_sl for its own floor.
C19_RuleFloors ==
    (out.returned /\ symbol \in DOMAIN MIN_TP /\ DirectionsPass) =>
        \A i \in 1..Len(Rules) :
            LET floor == Rules[i].min_tp
                r == compute_tp_sl(InfoOf(i).entry, Dir("M15"), frames["M15"], symbol, floor)
            IN  /\ InfoOf(i).reason = "ok"
                      <=> ~QLt(recent_30m_range(frames["M1"]), floor)
                /\ InfoOf(i).reason = "ok"
                      => /\ InfoOf(i).tp = r.tp /\ InfoOf(i).sl = r.sl
                         /\ QLe(floor, TpDistance(Val(InfoOf(i).entry), InfoOf(i).signal,
                                                  Val(InfoOf(i).tp)))

\* C17: cache_get(key) returns a value v only if the latest cache_set of the
\* key stored v less than CACHE_TTL seconds earlier; once CACHE_TTL seconds
\* or more have passed since that set (or the key was never set) it returns
\* None; and fetch_oanda_candles makes no provider request when the cache
\* holds such a value for its key, returning that value.
C17_CacheFreshness ==
    /\ cache_op.op = "get" =>
          LET set == last_set[cache_op.key]
          IN  /\ cache_op.val.present
                    => /\ set.set /\ set.val = cache_op.val
                       /\ clock - set.ts < CACHE_TTL
              /\ (~set.set \/ clock - set.ts >= CACHE_TTL) => cache_op.val = NoFrame
    /\ (cache_op.op = "fetch" /\ cache_op.fresh)
          => /\ ~cache_op.requested
             /\ cache_op.val = last_set[cache_op.key].val

\* A cache_get one second before the time to live is over returns the frame
\* that was set, while the other key's record has run out.
C17_Witness ==
    /\ cache_op.op = "get" /\ cache_op.val.present
    /\ clock - last_set[cache_op.key].ts = CACHE_TTL - 1
    /\ \E k \in Keys : last_set[k].set /\ last_set[k].val.present /\ ~Fresh(k)

\* The candles of a response that are marked complete.
CompleteTimes(resp) ==
    {resp.candles[i].time : i \in {j \in 1..Len(resp.candles) : resp.candles[j].complete}}

\* C18: fetch_oanda_candles returns None or a non-empty frame ordered
\* oldest to newest by time; after a request the frame holds exactly the
\* provider's candles marked complete, each once; and None is returned when
\* the request fails, the provider delivers no candles, or none is complete.
C18_FetchedCompleteSorted ==
    cache_op.op = "fetch" =>
        LET df == cache_op.val
            resp == cache_op.resp
        IN  /\ df = NoFrame \/ (df.present /\ Len(df.bars) > 0)
            /\ \A i \in 1..(Len(df.bars) - 1) : df.bars[i].time < df.bars[i + 1].time
            /\ (cache_op.requested /\ df.present)
                  => /\ {df.bars[i].time : i \in 1..Len(df.bars)} = CompleteTimes(resp)
                     /\ Len(df.bars) = Cardinality(CompleteTimes(resp))
                     /\ \A i \in 1..Len(df.bars) : df.bars[i].close = BasePrice + df.bars[i].time
            /\ (cache_op.requested
                  /\ (resp.failed \/ resp.candles = <<>> \/ CompleteTimes(resp) = {}))
                  => df = NoFrame

\* The provider delivers the newer candle first and an unfinished candle
\* with them; the frame has the finished ones, the older first.
C18_Witness ==
    /\ cache_op.op = "fetch" /\ cache_op.requested
    /\ Len(cache_op.resp.candles) >= 2
    /\ cache_op.resp.candles[1].time > cache_op.resp.candles[2].time
    /\ cache_op.val.present
    /\ Len(cache_op.val.bars) = Cardinality(CompleteTimes(cache_op.resp))

\* What reversal_sniper was called with and what it works from.
SniperCalled == fn_call.name = "reversal_sniper"
ReachedScoring ==
    /\ SniperCalled
    /\ fn_ret.sniper.reason \notin {"", "insufficient_data", "no_swings"}
SnEntry == Val(fn_call.entry)
SnAtr ==
    LET a == atr(frames["M15"], AtrPeriod)
    IN  IF a.some THEN Val(a) ELSE Q(0)
\* max(MIN_TP[instrument] or 5.0, ATR, 0.15% of |entry|)
SnTol ==
    QMax(QMax(MappedMin(symbol, Q(5)), SnAtr), QMul(QAbs(SnEntry), Norm(15, 10000)))
\* The price is within the tolerance of the swing level on the bias side.
SnNearSwing ==
    \/ fn_call.bias = "LONG"
          /\ QLe(QSub(SnEntry, Val(swings_24h(frames["M15"]).low)), SnTol)
    \/ fn_call.bias = "SHORT"
          /\ QLe(QSub(Val(swings_24h(frames["M15"]).high), SnEntry), SnTol)
\* The 5-minute EMA direction confirms the bias.
SnConfirmed5 ==
    \/ fn_call.bias = "LONG" /\ Dir("M5") = "BUY"
    \/ fn_call.bias = "SHORT" /\ Dir("M5") = "SELL"
\* Each of the last three 1-minute closes lies strictly beyond the close
\* before it, in the bias direction.
SnThreeCloses ==
    LET b == frames["M1"].bars
        n == Len(b)
    IN  /\ n >= 4
        /\ \/ fn_call.bias = "LONG" /\ b[n - 3].close < b[n - 2].close
                 /\ b[n - 2].close < b[n - 1].close /\ b[n - 1].close < b[n].close
           \/ fn_call.bias = "SHORT" /\ b[n - 3].close > b[n - 2].close
                 /\ b[n - 2].close > b[n - 1].close /\ b[n - 1].close > b[n].close
Points(cond, k) == IF cond THEN k ELSE 0

\* C20: wherever reversal_sniper reaches scoring, the confidence score is
\* +2 for a price within tolerance of the bias-side swing level, +1 for
\* ATR >= tolerance, +1 for a confirming 5-minute EMA direction and +1 for
\* the last three 1-minute closes each moving strictly in the bias
\* direction; it lies in 0..5, and the label is High exactly for 4-5,
\* Medium exactly for 3 and Low exactly for 0-2.
C20_ConfidenceScore ==
    ReachedScoring =>
        LET score == fn_ret.sniper.confidence_score
            label == fn_ret.sniper.confidence_label
        IN  /\ score = Points(SnNearSwing, 2) + Points(QLe(SnTol, SnAtr), 1)
                       + Points(SnConfirmed5, 1) + Points(SnThreeCloses, 1)
            /\ score \in 0..5
            /\ label = "High" <=> score \in {4, 5}
            /\ label = "Medium" <=> score = 3
            /\ label = "Low" <=> score \in {0, 1, 2}

\* A SHORT bias with every criterion met: score 5, High.
C20_Witness ==
    /\ ReachedScoring /\ fn_call.bias = "SHORT"
    /\ fn_ret.sniper.confidence_score = 5
    /\ fn_ret.sniper.confidence_label = "High"


---------------------------------------------------------------------------
\* The frame of the latest call was missing, empty or shorter than `need`.
UnderLength(need) == ~fn_df.present \/ NBars < need

\* What ema_dir, one_min_confirm and swings_24h answer to too little history.
NullForUnderLength ==
    /\ (fn_call.name = "ema_dir" /\ UnderLength(SlowWin + 2))
           => (fn_ret.str = "null" /\ ~fn_ret.raised)
    /\ (fn_call.name = "one_min_confirm" /\ UnderLength(2))
           => (fn_ret.str = "null" /\ ~fn_ret.raised)
    /\ (fn_call.name = "swings_24h" /\ UnderLength(SwingMinBars))
           => (~fn_ret.hi.some /\ ~fn_ret.lo.some /\ ~fn_ret.raised)

\* compute_signal_instant returned direction "None" with no target and no stop.
InstantNoDirection ==
    /\ ~fn_ret.raised
    /\ fn_ret.str = "None"
    /\ ~fn_ret.tp.some /\ ~fn_ret.sl.some /\ ~fn_ret.rr.some

---------------------------------------------------------------------------
\* analyze_instrument returned its dict.
Analyzed == out.returned /\ ~out.raised

\* What line 268 formats into the low-volatility reason of rule i.
LowVolText(i) ==
    <<recent_30m_range(frames["M1"]), MappedMin(symbol, Rules[i].min_tp)>>

---------------------------------------------------------------------------
\* base_distance of compute_tp_sl for rule i, from the 15-minute frame of
\* the request.
BaseDistance(i) ==
    LET atr15 == atr(frames["M15"], AtrPeriod)
        atr_val == IF atr15.some /\ QLt(Q(0), Val(atr15)) THEN Val(atr15) ELSE Q(0)
    IN  QAdd(MappedMin(symbol, Rules[i].min_tp), atr_val)

\* A number of at most six decimals, in millionths.
Micro(q) == q.n * (1000000 \div q.d)

---------------------------------------------------------------------------
\* The gates of rule i, from the directions and the frames of the request.
Gate1Fails(d15, d5) == ~Agreement(d15, d5)
Gate2Fails(d1) == d1 \notin Sides
Gate3Fails(d15, d1) == d1 # d15
Gate4Fails(i) ==
    QLt(recent_30m_range(frames["M1"]), MappedMin(symbol, Rules[i].min_tp))
\* The flag compute_tp_sl gives rule i.
Gate5Flag(i, d15) ==
    compute_tp_sl(Some(Q(frames["M1"].bars[Len(frames["M1"].bars)].close)),
                  d15, frames["M15"], symbol,
                  MappedMin(symbol, Rules[i].min_tp)).flag

\* A 1-hour frame of another bias than that of the request: none when there
\* was one, a rising one when there was none.
OtherH1 ==
    IF frames["H1"].present THEN NoFrame
    ELSE Frame(Bars(MaMinBars, PriceStep, 0, 0, 0))

\* C25: each rule reports the reason of the first gate that fails, in the
\* order 15m/5m disagreement, 1-minute direction unknown, 1-minute direction
\* against the agreed side, 30-minute range below the floor, compute_tp_sl's
\* flag; and the results are those of the same call with another 1-hour
\* frame (none for one, one for none).
C25_FirstFailedGate ==
    Analyzed
        => LET d15 == Dir("M15")
               d5 == Dir("M5")
               d1 == Dir("M1")
               other == analyze_instrument(symbol, OtherH1, frames["M15"],
                                           frames["M5"], frames["M1"])
           IN  /\ \A i \in 1..Len(Rules) :
                      InfoOf(i).reason =
                          IF Gate1Fails(d15, d5) THEN "15m and 5m do not agree"
                          ELSE IF Gate2Fails(d1) THEN "1m EMA direction unknown"
                          ELSE IF Gate3Fails(d15, d1)
                          THEN "1m EMA doesn't match 5m/15m agreement"
                          ELSE IF Gate4Fails(i) THEN "Low 30m volatility"
                          ELSE Gate5Flag(i, d15)
               /\ other.min_10 = out.min_10 /\ other.min_5 = out.min_5

\* The first, the second and the fourth gate fail together, under a 1-hour
\* frame that gives a bias, and the disagreement is what is reported.
C25_Witness ==
    /\ Analyzed
    /\ out.primary_bias \in {"UP", "DOWN", "SIDEWAYS"}
    /\ Gate1Fails(Dir("M15"), Dir("M5")) /\ Gate2Fails(Dir("M1")) /\ Gate4Fails(1)
    /\ out.min_10.reason = "15m and 5m do not agree"
    /\ frames["M15"].present /\ frames["M5"].present

---------------------------------------------------------------------------
\* C26: a failure is not served from the cache: a fetch_oanda_candles for a
\* key whose latest stored value is None, stored less than CACHE_TTL ago,
\* asks the provider again; a fetch for a key whose latest stored value is a
\* frame less than CACHE_TTL old asks nothing.
C26_FailuresNotCached ==
    cache_op.op = "fetch"
        => /\ cache_op.after_failure => cache_op.requested
           /\ cache_op.fresh => ~cache_op.requested

\* A fetch failed, and the next fetch of the key, at the same second, asked
\* the provider again and got a frame.
C26_Witness ==
    /\ cache_op.op = "fetch" /\ cache_op.after_failure /\ cache_op.requested
    /\ cache_op.val.present
    /\ last_set[cache_op.key].ts = clock
    /\ clock < CACHE_TTL

---------------------------------------------------------------------------
\* The take-profit of a reversal_sniper trade lies at least `floor` beyond the
\* entry on the trade's side, both as reported (six decimals).
SniperTpBeyond(floor) ==
    LET r == fn_ret.sniper
        d == Micro(Val(r.tp)) - Micro(Val(r.entry))
    IN  IF r.signal = "BUY" THEN d >= Micro(floor) ELSE 0 - d >= Micro(floor)

\* C27: a BUY or SELL of reversal_sniper carries the label Medium or High
\* (a score of at least 3), a take-profit at least MIN_TP[instrument]
\* (5.0 for an unmapped instrument) from the entry, and the bias of its side
\* (LONG for BUY, SHORT for SELL); a SIDEWAYS bias always yields NO TRADE.
C27_SniperTrades ==
    SniperCalled =>
        LET r == fn_ret.sniper
        IN  /\ r.signal \in {"BUY", "SELL", "NO TRADE"}
            /\ r.signal \in {"BUY", "SELL"} =>
                   /\ r.confidence_label \in {"Medium", "High"}
                   /\ r.confidence_score >= 3
                   /\ SniperTpBeyond(MappedMin(symbol, Q(5)))
                   /\ fn_call.bias = (IF r.signal = "BUY" THEN "LONG" ELSE "SHORT")
            /\ fn_call.bias = "SIDEWAYS" => r.signal = "NO TRADE"

\* A BUY on the 5-minute confirmation alone: score 3, label Medium.
C27_Witness ==
    /\ SniperCalled
    /\ fn_ret.sniper.signal = "BUY"
    /\ fn_ret.sniper.confidence_score = 3
    /\ fn_ret.sniper.confidence_label = "Medium"
    /\ fn_call.bias = "LONG"

---------------------------------------------------------------------------
\* compute_signal_instant was called with a frame.
InstantCalled == fn_call.name = "compute_signal_instant" /\ fn_df.present
\* low <= min(open, close) <= max(open, close) <= high on every bar.
InstantWellFormed ==
    \A i \in 1..NBars :
        LET c == fn_df.bars[i]
        IN  /\ c.low <= c.open /\ c.low <= c.close
            /\ c.open <= c.high /\ c.close <= c.high
\* Both engulfing patterns at once on the last two bars of the frame.
BothEngulf ==
    LET c1 == fn_df.bars[NBars]
        c2 == fn_df.bars[NBars - 1]
        ema20 == ema(Closes(fn_df.bars), InstantSpan)
    IN  BullEngulf(c1, c2, ema20) /\ BearEngulf(c1, c2, ema20)

\* C28: on a frame of at least the minimum number of well-formed candles
\* compute_signal_instant never divides by zero and never finds both
\* patterns; a Buy has stop_loss < price < take_profit and a Sell has
\* take_profit < price < stop_loss, the take-profit distance is exactly
\* twice the stop distance and risk_reward is 2.0. On a shorter frame the
\* direction is "None" with null take_profit and stop_loss.
C28_InstantSignal ==
    InstantCalled =>
        /\ (NBars >= InstantMinBars /\ InstantWellFormed) =>
               /\ ~fn_ret.raised
               /\ ~BothEngulf
               /\ fn_ret.str \in {"Buy", "Sell", "None"}
               /\ fn_ret.str = "Buy" =>
                      /\ QLt(Val(fn_ret.sl), Val(fn_ret.num))
                      /\ QLt(Val(fn_ret.num), Val(fn_ret.tp))
                      /\ QSub(Val(fn_ret.tp), Val(fn_ret.num))
                             = QMulInt(QSub(Val(fn_ret.num), Val(fn_ret.sl)), 2)
                      /\ fn_ret.rr = Some(Q(2))
               /\ fn_ret.str = "Sell" =>
                      /\ QLt(Val(fn_ret.tp), Val(fn_ret.num))
                      /\ QLt(Val(fn_ret.num), Val(fn_ret.sl))
                      /\ QSub(Val(fn_ret.num), Val(fn_ret.tp))
                             = QMulInt(QSub(Val(fn_ret.sl), Val(fn_ret.num)), 2)
                      /\ fn_ret.rr = Some(Q(2))
               /\ fn_ret.str = "None" => ~fn_ret.tp.some /\ ~fn_ret.sl.some
        /\ NBars < InstantMinBars => InstantNoDirection

\* A Sell on a full frame of well-formed candles whose stop is the high of
\* the bar before the last.
C28_Witness ==
    /\ InstantCalled /\ NBars >= InstantMinBars /\ InstantWellFormed
    /\ fn_ret.str = "Sell"
    /\ fn_ret.sl = Some(Q(fn_df.bars[NBars - 1].high))
    /\ fn_df.bars[NBars - 1].high > fn_df.bars[NBars].high

---------------------------------------------------------------------------
\* detect_fvgs was called on a frame with low <= high on every bar.
FvgCalled == fn_call.name = "detect_fvgs"
FvgWellFormed == \A i \in 1..NBars : fn_df.bars[i].low <= fn_df.bars[i].high
\* The positions (from the third bar on) whose low lies above the high two
\* bars earlier, and those whose high lies below the low two bars earlier.
GapsUp == {i \in 3..NBars : fn_df.bars[i].low > fn_df.bars[i - 2].high}
GapsDown == {i \in 3..NBars : fn_df.bars[i].high < fn_df.bars[i - 2].low}

\* C29: on bars with low <= high, detect_fvgs reports at most one gap per
\* position from the third bar on: bullish exactly where the low lies above
\* the high two bars earlier, bearish exactly where the high lies below the
\* low two bars earlier, never both; every gap has low < high, starts at the
\* time of the bar two earlier and ends at the time of its own bar; and the
\* result is the last FvgKeep (12) gaps, oldest first.
C29_FairValueGaps ==
    (FvgCalled /\ FvgWellFormed) =>
        LET g == fn_ret.fvgs
            up == GapsUp
            down == GapsDown
            ends == {g[j].end : j \in 1..Len(g)}
        IN  /\ up \cap down = {}
            /\ \A j \in 1..Len(g) :
                   LET i == g[j].end
                   IN  /\ i \in up \cup down
                       /\ g[j].type = (IF i \in up THEN "bullish" ELSE "bearish")
                       /\ g[j].start = i - 2
                       /\ g[j].low < g[j].high
                       /\ i \in up => /\ g[j].low = fn_df.bars[i - 2].high
                                      /\ g[j].high = fn_df.bars[i].low
                       /\ i \in down => /\ g[j].low = fn_df.bars[i].high
                                        /\ g[j].high = fn_df.bars[i - 2].low
            /\ \A j \in 1..(Len(g) - 1) : g[j].end < g[j + 1].end
            /\ Len(g) = (IF Cardinality(up \cup down) <= FvgKeep
                         THEN Cardinality(up \cup down) ELSE FvgKeep)
            /\ \A i \in (up \cup down) \ ends : \A k \in ends : i < k

\* More gaps than are kept, of both kinds, and the oldest ones dropped.
C29_Witness ==
    /\ FvgCalled /\ FvgWellFormed
    /\ Cardinality(GapsUp \cup GapsDown) > FvgKeep
    /\ Len(fn_ret.fvgs) = FvgKeep
    /\ \E j, k \in 1..Len(fn_ret.fvgs) :
           fn_ret.fvgs[j].type = "bullish" /\ fn_ret.fvgs[k].type = "bearish"
    /\ fn_ret.fvgs[1].end > 4

---------------------------------------------------------------------------
\* trade_signal was called on a frame with rows.
TradeCalled == fn_call.name = "trade_signal" /\ ~fn_ret.raised
TradeClose == fn_df.bars[NBars].close
TradeHigh == MaxOf({fn_df.bars[i].high : i \in 1..NBars})
TradeLow == MinOf({fn_df.bars[i].low : i \in 1..NBars})
\* The highest high lies at least min_points above the latest close; the
\* latest close lies at least min_points above the lowest low.
RoomAbove == TradeHigh - TradeClose >= fn_call.min_points
RoomBelow == TradeClose - TradeLow >= fn_call.min_points
AbsInt(x) == IF x >= 0 THEN x ELSE 0 - x

\* C30: trade_signal returns BUY with tp = entry + min_points whenever the
\* highest high lies at least min_points above the latest close, also when
\* the SELL condition holds too; SELL with tp = entry - min_points only when
\* the BUY condition fails and the latest close lies at least min_points
\* above the lowest low; otherwise a null signal and a null tp.  The entry is
\* the latest close, every non-null signal has |tp - entry| = min_points, and
\* with min_points = 0 and the latest close <= its high the result is BUY
\* with tp = entry.
C30_TradeSignal ==
    TradeCalled =>
        LET m == fn_call.min_points
            c == TradeClose
        IN  /\ fn_ret.num = Some(Q(c))
            /\ fn_ret.str \in {"BUY", "SELL", "null"}
            /\ RoomAbove => fn_ret.str = "BUY" /\ fn_ret.tp = Some(Q(c + m))
            /\ fn_ret.str = "BUY" => RoomAbove
            /\ fn_ret.str = "SELL" <=> (~RoomAbove /\ RoomBelow)
            /\ fn_ret.str = "SELL" => fn_ret.tp = Some(Q(c - m))
            /\ (~RoomAbove /\ ~RoomBelow) => fn_ret.str = "null"
            /\ fn_ret.str = "null" <=> ~fn_ret.tp.some
            /\ fn_ret.str # "null" => AbsInt(Val(fn_ret.tp).n - Val(fn_ret.num).n) = m
            /\ (m = 0 /\ fn_df.bars[NBars].close <= fn_df.bars[NBars].high)
                   => fn_ret.str = "BUY" /\ fn_ret.tp = fn_ret.num

\* Room on both sides for a positive min_points: BUY.
C30_Witness ==
    /\ TradeCalled
    /\ fn_call.min_points > 0
    /\ RoomAbove /\ RoomBelow
    /\ fn_ret.str = "BUY"
    /\ fn_ret.tp = Some(Q(TradeClose + fn_call.min_points))

=========================================================================
